---- MODULE Spec2Model ----
(***************************************************************************)
(* A model of the session protocol engine of chucky-sdk-go: the Session    *)
(* state machine (pkg/chucky/session.go), the WebSocket transport it owns  *)
(* (pkg/transport/websocket.go) and the part of the Client that the        *)
(* Session calls back (pkg/chucky/client.go).                              *)
(*                                                                         *)
(* Threads: the API callers (Connect, Send, Close), the transport's read   *)
(* loop (which runs handleMessage, handleToolCall and handleClose), the    *)
(* keep-alive loop and the Stream forwarding goroutines.  The remote side  *)
(* and the network are the environment: the read loop receives any frame   *)
(* of a small alphabet, a dial may fail, the socket may break, a context   *)
(* may be cancelled and a timer may fire.                                  *)
(***************************************************************************)
EXTENDS Integers, Sequences, FiniteSets, TLC

\* ------------------------------------------------------------------ bounds
MaxInbound == 2     \* frames the remote side sends during one run
MaxCalls   == 2     \* API calls the callers make in all
MaxPings   == 1     \* keep-alive ticks during one run

\* ------------------------------------------------------- program constants
MsgChCap == 100     \* make(chan types.IncomingMessage, 100)

Callers    == {"c1", "c2"}
ReadLoop   == "rl"
Threads    == Callers \cup {ReadLoop}
AllStreams == {"st1", "st2"}

\* ------------------------------------------------------------------ errors
\* types.ChuckyError reduced to its code and message; Nil is the nil error.
Nil == [code |-> "nil", message |-> ""]

ChuckyError(code, message) == [code |-> code, message |-> message]

ConnectionError(message) == ChuckyError("CONNECTION_ERROR", message)

SessionError(message) == ChuckyError("SESSION_ERROR", message)

TimeoutError(message) == ChuckyError("TIMEOUT_ERROR", message)

ProtocolError(message) == ChuckyError("PROTOCOL_ERROR", message)

\* ctx.Err() of a cancelled context
CtxErr == [code |-> "context", message |-> "context canceled"]

ClosedDuringInit == "session closed during initialization"

\* --------------------------------------------------------------- envelopes
ControlEnvelope(action) == [type |-> "control", action |-> action]

SDKSystemMessage(subtype, sid) ==
    [type |-> "system", subtype |-> subtype, session_id |-> sid]

ErrorEnvelope(message) == [type |-> "error", message |-> message]

ToolCallEnvelope(callId, toolName, input) ==
    [type |-> "tool_call", callId |-> callId, toolName |-> toolName, input |-> input]

SDKResultMessage == [type |-> "result"]

SDKAssistantMessage == [type |-> "assistant"]

NoMsg == [type |-> "none"]

\* Outbound.  The Init payload field sessionId is the one sendInit leaves out.
InitEnvelope(sid) == [type |-> "init", sessionId |-> sid]

SDKUserMessage(sid, content) ==
    [type |-> "user", session_id |-> sid, content |-> content]

ToolResultEnvelope(callId, result) ==
    [type |-> "tool_result", callId |-> callId, result |-> result]

PingEnvelope == [type |-> "ping"]

\* ------------------------------------------------------------------- tools
\* The session options declare a client-tools MCP server with two tools: one
\* with a local handler and one without; "t_unknown" is declared nowhere.
McpTools ==
    { [name |-> "t_reg",  hasHandler |-> TRUE],
      [name |-> "t_decl", hasHandler |-> FALSE] }

\* JSON values a ToolCall may carry as input: an object, an array, null.
JsonObject == [kind |-> "object", val |-> "a=1"]
JsonArray  == [kind |-> "array",  val |-> "[1]"]
JsonNull   == [kind |-> "null",   val |-> ""]
NilMap     == [kind |-> "object", val |-> ""]

TextToolContent(text) == [type |-> "text", text |-> text]

ToolResult(content, isError) == [content |-> content, isError |-> isError]

\* What a registered handler may return: a result, an explicit error result,
\* or an error.
HandlerOutcomes ==
    { [err |-> "",     result |-> ToolResult(<<TextToolContent(<<"out">>)>>, FALSE)],
      [err |-> "",     result |-> ToolResult(<<TextToolContent(<<"bad">>)>>, TRUE)],
      [err |-> "boom", result |-> ToolResult(<<>>, FALSE)] }

VARIABLES
    \* Session
    sessionID, state, connected, msgCh, closeCh, closeOnce, readyCh, readyBy,
    initErr, toolHandlers, options,
    \* Client, callbacks
    sessions, peers, closing, atClose, notes,
    \* Transport
    conn, status, tReadyCh, tCloseCh, msgQueue, wire, broken, dials, flushing,
    \* threads
    pc, op, res, ctxDone, calls, auto,
    rlMsg, rlSnap, kaPc,
    \* the read loop that a Transport.Connect starts while one is running
    rl2,
    spc, sctx, held, delivered,
    wpc, wres,
    \* history
    submitted, nIn, pings, lastTool, seenIds

sessVars  == <<sessionID, state, connected, msgCh, closeCh, closeOnce, readyCh,
               readyBy, initErr, toolHandlers, options>>
regVars   == <<sessions, peers, closing, atClose>>
cliVars   == <<regVars, notes>>
transVars == <<conn, status, tReadyCh, tCloseCh, msgQueue, wire, broken, dials, flushing>>
callVars  == <<op, res, ctxDone, calls, auto>>
rlVars    == <<rlMsg, rlSnap, rl2>>
strVars   == <<spc, sctx, held, delivered>>
waitVars  == <<wpc, wres>>
histVars  == <<submitted, nIn, pings, lastTool, seenIds>>

vars == <<sessVars, cliVars, transVars, pc, callVars, rlVars, kaPc, strVars, waitVars, waitVars,
          histVars>>


\* ------------------------------------------------------------------- Init
\* (mutant) every declared tool is registered, handler or not.
ExtractToolHandlers_All(tools) == { t.name : t \in tools }

\* extractToolHandlers: only tools that carry a handler are registered.
ExtractToolHandlers(tools) == { t.name : t \in { x \in tools : x.hasHandler } }

\* The session whose fields the variables of the Session group are, and the
\* other sessions the client may create, each kept as its identity and
\* whether its Close ran.
MainSession == "s0"

PeerIds == {"p1", "p2"}

\* The identity the remote side assigns to a peer session.
PeerIdOf(p) == <<"id", p>>

\* The session options, reduced to the session id the caller asks to resume:
\* none for Client.CreateSession, the caller's for Client.ResumeSession.
CreateOptions == [SessionID |-> ""]

ResumeIds == {"r1"}

ResumeOptions(sid) == [SessionID |-> sid]

\* newSession, NewWebSocketTransport and Client.CreateSession (which files the
\* session under session.ID(), the empty string at that time).
NewSession ==
    /\ sessionID = ""
    /\ state = "idle"
    /\ connected = FALSE
    /\ msgCh = <<>>
    /\ closeCh = FALSE
    /\ closeOnce = "idle"
    /\ readyCh = FALSE
    /\ readyBy = "none"
    /\ initErr = Nil
    /\ toolHandlers = ExtractToolHandlers(McpTools)
    /\ sessions = ("" :> MainSession)
    /\ peers = [p \in PeerIds |-> [made |-> FALSE, id |-> "", closed |-> FALSE]]
    /\ closing = {}
    /\ atClose = [live |-> {}, listed |-> {}]
    /\ notes = [start |-> 0, end |-> 0, close |-> 0, err |-> 0, last |-> "none", tconnect |-> 0, loops |-> 0]
    /\ conn = 0
    /\ status = "disconnected"
    /\ tReadyCh = FALSE
    /\ tCloseCh = FALSE
    /\ msgQueue = <<>>
    /\ wire = <<>>
    /\ broken = FALSE
    /\ dials = 0
    /\ flushing = [c \in Callers |-> <<>>]
    /\ pc = [t \in Threads |-> IF t = ReadLoop THEN "off" ELSE "idle"]
    /\ op = [c \in Callers |-> "none"]
    /\ res = [c \in Callers |-> Nil]
    /\ ctxDone = [c \in Callers |-> FALSE]
    /\ calls = 0
    /\ auto = [c \in Callers |-> "none"]
    /\ rlMsg = NoMsg
    /\ rlSnap = FALSE
    /\ rl2 = [pc |-> "off", msg |-> NoMsg, snap |-> FALSE]
    /\ kaPc = "off"
    /\ spc = [s \in AllStreams |-> "off"]
    /\ sctx = [s \in AllStreams |-> FALSE]
    /\ held = [s \in AllStreams |-> NoMsg]
    /\ delivered = [s \in AllStreams |-> <<>>]
    /\ submitted = <<>>
    /\ nIn = 0
    /\ pings = 0
    /\ lastTool = [ran |-> FALSE]
    /\ seenIds = {}
    /\ wpc = "off"
    /\ wres = Nil

\* A session made by Client.CreateSession.
Init == options = CreateOptions /\ NewSession

\* A session right after Connect returned nil on a Control "ready": the Init
\* envelope written, the session connected and Ready, the loops running, and
\* buf the messages forwarded since and not yet taken by a Stream call. n is
\* the number of Connect calls that went through the handshake together (1,
\* or 2 for two concurrent calls): each dialled, wrote an Init envelope and
\* started a read loop. The counters of the run (calls, frames, pings) start
\* from here.
ReadyWith(buf, n) ==
    /\ options = CreateOptions
    /\ sessionID = ""
    /\ state = "ready"
    /\ connected = TRUE
    /\ msgCh = buf
    /\ closeCh = FALSE
    /\ closeOnce = "idle"
    /\ readyCh = TRUE
    /\ readyBy = "control"
    /\ initErr = Nil
    /\ toolHandlers = ExtractToolHandlers(McpTools)
    /\ sessions = ("" :> MainSession)
    /\ peers = [p \in PeerIds |-> [made |-> FALSE, id |-> "", closed |-> FALSE]]
    /\ closing = {}
    /\ atClose = [live |-> {}, listed |-> {}]
    /\ notes = [start |-> n, end |-> 0, close |-> 0, err |-> 0, last |-> "none", tconnect |-> n, loops |-> n]
    /\ conn = n
    /\ status = "connected"
    /\ tReadyCh = TRUE
    /\ tCloseCh = FALSE
    /\ msgQueue = <<>>
    /\ wire = [k \in 1..n |-> InitEnvelope("")]
    /\ broken = FALSE
    /\ dials = n
    /\ flushing = [c \in Callers |-> <<>>]
    /\ pc = [t \in Threads |-> IF t = ReadLoop THEN "read" ELSE "idle"]
    /\ op = [c \in Callers |-> IF c = "c1" \/ n = 2 THEN "Connect" ELSE "none"]
    /\ res = [c \in Callers |-> Nil]
    /\ ctxDone = [c \in Callers |-> FALSE]
    /\ calls = 0
    /\ auto = [c \in Callers |-> "none"]
    /\ rlMsg = IF buf = <<>> THEN ControlEnvelope("ready") ELSE buf[Len(buf)]
    /\ rlSnap = (buf # <<>>)
    /\ rl2 = [pc |-> IF n = 2 THEN "read" ELSE "off", msg |-> NoMsg, snap |-> FALSE]
    /\ kaPc = "run"
    /\ spc = [s \in AllStreams |-> "off"]
    /\ sctx = [s \in AllStreams |-> FALSE]
    /\ held = [s \in AllStreams |-> NoMsg]
    /\ delivered = [s \in AllStreams |-> <<>>]
    /\ submitted = [k \in 1..n |-> InitEnvelope("")]
    /\ nIn = 0
    /\ pings = 0
    /\ lastTool = [ran |-> FALSE]
    /\ seenIds = {}
    /\ wpc = "off"
    /\ wres = Nil

InitReady == ReadyWith(<<>>, 1)

\* The session connected by two concurrent Connect calls, after MsgChCap
\* assistant messages were forwarded and no Stream call has been made.
InitFull == ReadyWith([k \in 1..MsgChCap |-> SDKAssistantMessage], 2)

\* A session made by Client.CreateSession or by Client.ResumeSession.
InitResume ==
    /\ options \in {CreateOptions} \cup { ResumeOptions(sid) : sid \in ResumeIds }
    /\ NewSession

\* -------------------------------------------------------------- Transport
\* WebSocketTransport.Send queues the message instead of writing it.
SendQueues == status = "connecting" \/ conn = 0

\* What sendImmediate returns to a caller that another thread may have
\* disconnected since Send read the handle: the handle is gone or the write
\* on the closed socket fails; a write on a broken socket fails.
SendImmediateOutcomes ==
    IF conn = 0
    THEN {ConnectionError("not connected"), ConnectionError("failed to send message")}
    ELSE IF broken THEN {ConnectionError("failed to send message")} ELSE {Nil}

\* WebSocketTransport.Send followed by sendImmediate, as one step of the read
\* loop, the keep-alive loop or Close: the message is queued while the status
\* is Connecting or there is no connection handle, else it is written; a
\* write on a broken socket fails with a ConnectionError.
TransportSend(msg) ==
    IF SendQueues
    THEN [queue |-> Append(msgQueue, msg), wire |-> wire, err |-> Nil]
    ELSE IF broken
         THEN [queue |-> msgQueue, wire |-> wire,
               err |-> ConnectionError("failed to send message")]
         ELSE [queue |-> msgQueue, wire |-> Append(wire, msg), err |-> Nil]

\* Session.handleError: client.notifyError and handlers.OnError (the errCh
\* slot is non-blocking and nobody reads it).
HandleError(n, e) == [n EXCEPT !.err = @ + 1, !.last = e.code]

\* ----------------------------------------------------------- thread steps
Goto(t, p) == pc' = [pc EXCEPT ![t] = p]

\* Client.Prompt goes on after a call it made returned r: after Send with an
\* error it returns that error, after Send without one it ranges over
\* Stream; either way the deferred Close runs, and when that has returned
\* Prompt returns what it had decided to return.
PromptResume(c, r) ==
    /\ IF pc[c] \in {"cl_begin", "cl_body"}
       THEN /\ Goto(c, "idle")
            /\ ctxDone' = [ctxDone EXCEPT ![c] = FALSE]
            /\ UNCHANGED res
       ELSE IF r = Nil
            THEN Goto(c, "p_stream") /\ UNCHANGED <<res, ctxDone>>
            ELSE /\ Goto(c, "cl_begin")
                 /\ res' = [res EXCEPT ![c] = r]
                 /\ UNCHANGED ctxDone
    /\ UNCHANGED <<op, calls, auto>>

\* A call returns r to its caller.
Return(c, r) ==
    IF op[c] = "Prompt"
    THEN PromptResume(c, r)
    ELSE /\ Goto(c, "idle")
         /\ res' = [res EXCEPT ![c] = r]
         /\ ctxDone' = [ctxDone EXCEPT ![c] = FALSE]
         /\ UNCHANGED <<op, calls, auto>>

\* (mutant) Send goes on after a failed auto-connect.
ConnectReturn_IgnoreError(c, err) ==
    IF op[c] = "Send"
    THEN /\ Goto(c, "s_body")
         /\ auto' = [auto EXCEPT ![c] = "ok"]
         /\ UNCHANGED <<op, res, ctxDone, calls>>
    ELSE Return(c, err)

\* Session.Connect returns err: to the caller, or into Send (auto-connect),
\* which returns it when it is an error and goes on otherwise.
ConnectReturn(c, err) ==
    IF op[c] \in {"Send", "Prompt"} /\ err = Nil
    THEN /\ Goto(c, "s_body")
         /\ auto' = [auto EXCEPT ![c] = "ok"]
         /\ UNCHANGED <<op, res, ctxDone, calls>>
    ELSE Return(c, err)

\* The caller starts one of its calls.
CallConnect(c) ==
    /\ pc[c] = "idle" /\ calls < MaxCalls
    /\ Goto(c, "c_begin")
    /\ op' = [op EXCEPT ![c] = "Connect"]
    /\ calls' = calls + 1
    /\ auto' = [auto EXCEPT ![c] = "none"]
    /\ UNCHANGED <<res, ctxDone>>
    /\ UNCHANGED <<sessVars, cliVars, transVars, rlVars, kaPc, strVars, waitVars, histVars>>

\* Session.Send, up to the auto-connect decision.
CallSend(c) ==
    /\ pc[c] = "idle" /\ calls < MaxCalls
    /\ Goto(c, IF connected THEN "s_body" ELSE "c_begin")
    /\ op' = [op EXCEPT ![c] = "Send"]
    /\ calls' = calls + 1
    /\ auto' = [auto EXCEPT ![c] = IF connected THEN "none" ELSE "connecting"]
    /\ UNCHANGED <<res, ctxDone>>
    /\ UNCHANGED <<sessVars, cliVars, transVars, rlVars, kaPc, strVars, waitVars, histVars>>

CallClose(c) ==
    /\ pc[c] = "idle" /\ calls < MaxCalls
    /\ Goto(c, "cl_begin")
    /\ op' = [op EXCEPT ![c] = "Close"]
    /\ calls' = calls + 1
    /\ auto' = [auto EXCEPT ![c] = "none"]
    /\ UNCHANGED <<res, ctxDone>>
    /\ UNCHANGED <<sessVars, cliVars, transVars, rlVars, kaPc, strVars, waitVars, histVars>>

\* The context of a call blocked in Connect's handshake wait is cancelled.
CtxCancel(c) ==
    /\ pc[c] = "hs" /\ ~ctxDone[c]
    /\ ctxDone' = [ctxDone EXCEPT ![c] = TRUE]
    /\ UNCHANGED <<op, res, calls, auto, pc>>
    /\ UNCHANGED <<sessVars, cliVars, transVars, rlVars, kaPc, strVars, waitVars, histVars>>

\* ---------------------------------------------------------------- Connect
\* (mutant) Connect without the connected check.
ConnectBegin_NoConnectedCheck(c) ==
    /\ pc[c] = "c_begin"
    /\ state' = "initializing"
    /\ status' = "connecting"
    /\ notes' = [notes EXCEPT !.tconnect = @ + 1]
    /\ Goto(c, "dial")
    /\ UNCHANGED callVars
    /\ UNCHANGED <<sessionID, connected, msgCh, closeCh, closeOnce, readyCh, readyBy,
                   initErr, toolHandlers, options, regVars>>
    /\ UNCHANGED <<conn, tReadyCh, tCloseCh, msgQueue, wire, broken, dials, flushing>>
    /\ UNCHANGED <<rlVars, kaPc, strVars, waitVars, histVars>>

\* Session.Connect: the connected check, setState(Initializing), and
\* Transport.Connect up to the dial (setStatus(Connecting)).
ConnectBegin(c) ==
    /\ pc[c] = "c_begin"
    /\ IF connected
       THEN /\ ConnectReturn(c, Nil)
            /\ UNCHANGED <<state, status, notes>>
       ELSE /\ state' = "initializing"
            /\ status' = "connecting"
            /\ notes' = [notes EXCEPT !.tconnect = @ + 1]
            /\ Goto(c, "dial")
            /\ UNCHANGED callVars
    /\ UNCHANGED <<sessionID, connected, msgCh, closeCh, closeOnce, readyCh, readyBy,
                   initErr, toolHandlers, options, regVars>>
    /\ UNCHANGED <<conn, tReadyCh, tCloseCh, msgQueue, wire, broken, dials, flushing>>
    /\ UNCHANGED <<rlVars, kaPc, strVars, waitVars, histVars>>

\* Transport.Connect, the dial succeeded: the handle is stored, the status is
\* Connected and readyCh is closed.
DialOk(c) ==
    /\ pc[c] = "dial"
    /\ dials' = dials + 1
    /\ conn' = dials + 1
    /\ broken' = FALSE
    /\ status' = "connected"
    /\ tReadyCh' = TRUE
    /\ Goto(c, "flush")
    /\ UNCHANGED <<tCloseCh, msgQueue, wire, flushing, cliVars>>
    /\ UNCHANGED <<sessVars, callVars, rlVars, kaPc, strVars, waitVars, histVars>>

\* The end of Transport.Connect: go readLoop, go keepAliveLoop.
StartLoops(c, n) ==
    /\ notes' = [n EXCEPT !.loops = @ + 1]
    /\ pc' = [pc EXCEPT ![c] = "wfr",
                        ![ReadLoop] = IF @ \in {"off", "exit"} THEN "read" ELSE @]
    /\ rl2' = IF pc[ReadLoop] \notin {"off", "exit"} /\ rl2.pc \in {"off", "exit"}
              THEN [rl2 EXCEPT !.pc = "read"]
              ELSE rl2
    /\ kaPc' = "run"

\* flushQueue takes the whole queue under its lock; with nothing queued
\* Transport.Connect goes on to start the loops.
FlushQueue(c) ==
    /\ pc[c] = "flush"
    /\ flushing' = [flushing EXCEPT ![c] = msgQueue]
    /\ msgQueue' = <<>>
    /\ IF msgQueue = <<>>
       THEN StartLoops(c, notes)
       ELSE Goto(c, "flush_w") /\ UNCHANGED <<notes, kaPc, rl2>>
    /\ UNCHANGED <<conn, status, tReadyCh, tCloseCh, wire, broken, dials, regVars>>
    /\ UNCHANGED <<sessVars, callVars, rlMsg, rlSnap, strVars, waitVars, histVars>>

\* (mutant) flushQueue takes the queued messages from the newest to the oldest.
FlushPick_Newest(q) == Len(q)

\* flushQueue ranges over the taken queue from its first message on.
FlushPick(q) == 1

\* q without its i-th message.
Without(q, i) == SubSeq(q, 1, i - 1) \o SubSeq(q, i + 1, Len(q))

\* flushQueue, one iteration: sendImmediate on the next message taken; its
\* error goes to the error callback and the loop goes on. After the last
\* message Transport.Connect starts the loops.
FlushWrite(c) ==
    /\ pc[c] = "flush_w"
    /\ \E e \in SendImmediateOutcomes :
         LET i == FlushPick(flushing[c])
             n == IF e = Nil THEN notes ELSE HandleError(notes, e) IN
           /\ wire' = IF e = Nil THEN Append(wire, flushing[c][i]) ELSE wire
           /\ flushing' = [flushing EXCEPT ![c] = Without(@, i)]
           /\ IF Len(flushing[c]) = 1
              THEN StartLoops(c, n)
              ELSE notes' = n /\ UNCHANGED <<pc, kaPc, rl2>>
    /\ UNCHANGED <<conn, status, tReadyCh, tCloseCh, msgQueue, broken, dials, regVars>>
    /\ UNCHANGED <<sessVars, callVars, rlMsg, rlSnap, strVars, waitVars, histVars>>

\* Transport.Connect, the dial failed: status Error, a ConnectionError, and
\* Session.Connect sets the state to Error and returns it.
DialErrors == { ConnectionError("invalid URL"), ConnectionError("failed to connect") }

\* (mutant) a failed dial leaves the status as it is.
DialFail_KeepsStatus(c) ==
    /\ pc[c] = "dial"
    /\ state' = "error"
    /\ \E e \in DialErrors : ConnectReturn(c, e)
    /\ UNCHANGED <<sessionID, connected, msgCh, closeCh, closeOnce, readyCh, readyBy,
                   initErr, toolHandlers, options>>
    /\ UNCHANGED <<cliVars, transVars>>
    /\ UNCHANGED <<rlVars, kaPc, strVars, waitVars, histVars>>

DialFail(c) ==
    /\ pc[c] = "dial"
    /\ status' = "error"
    /\ state' = "error"
    /\ \E e \in DialErrors : ConnectReturn(c, e)
    /\ UNCHANGED <<sessionID, connected, msgCh, closeCh, closeOnce, readyCh, readyBy,
                   initErr, toolHandlers, options>>
    /\ UNCHANGED <<cliVars, conn, tReadyCh, tCloseCh, msgQueue, wire, broken, dials, flushing>>
    /\ UNCHANGED <<rlVars, kaPc, strVars, waitVars, histVars>>

\* (mutant) sendInit copies the session id of the options into the payload.
SendInitEnvelope_FromOptions == InitEnvelope(options.SessionID)

\* sendInit: the payload is filled from the options, its SessionID field
\* left out, so the Init envelope carries no session identity.
SendInitEnvelope == InitEnvelope("")

\* (mutant) WaitForReady without the timer.
WaitForReadyOutcomes_NoTimeout == IF tReadyCh THEN {Nil} ELSE {}

\* Transport.WaitForReady: its select takes readyCh when it is closed, or
\* the timer once it has fired, which gives a TimeoutError.
WaitForReadyOutcomes ==
    (IF tReadyCh THEN {Nil} ELSE {}) \cup {TimeoutError("connection timeout")}

\* Session.Connect from WaitForReady to sendInit: an error of either sets
\* the state to Error and is returned.
WaitForReady(c) ==
    /\ pc[c] = "wfr"
    /\ \E w \in WaitForReadyOutcomes :
         IF w # Nil
         THEN /\ state' = "error"
              /\ ConnectReturn(c, w)
              /\ UNCHANGED <<msgQueue, wire, submitted>>
         ELSE /\ submitted' = Append(submitted, SendInitEnvelope)
              /\ msgQueue' = IF SendQueues THEN Append(msgQueue, SendInitEnvelope)
                             ELSE msgQueue
              /\ Goto(c, IF SendQueues THEN "hs" ELSE "i_write")
              /\ UNCHANGED <<state, callVars, wire>>
    /\ UNCHANGED <<sessionID, connected, msgCh, closeCh, closeOnce, readyCh, readyBy,
                   initErr, toolHandlers, options>>
    /\ UNCHANGED <<cliVars, conn, status, tReadyCh, tCloseCh, broken, dials, flushing>>
    /\ UNCHANGED <<rlVars, kaPc, strVars, waitVars, nIn, pings, lastTool, seenIds>>

\* sendInit, the write of sendImmediate: its error sets the state to Error
\* and is returned from Connect.
InitWrite(c) ==
    /\ pc[c] = "i_write"
    /\ \E e \in SendImmediateOutcomes :
         IF e = Nil
         THEN /\ wire' = Append(wire, SendInitEnvelope)
              /\ Goto(c, "hs")
              /\ UNCHANGED <<state, callVars>>
         ELSE /\ state' = "error"
              /\ ConnectReturn(c, e)
              /\ UNCHANGED wire
    /\ UNCHANGED <<sessionID, connected, msgCh, closeCh, closeOnce, readyCh, readyBy,
                   initErr, toolHandlers, options>>
    /\ UNCHANGED <<cliVars, conn, status, tReadyCh, tCloseCh, msgQueue, broken, dials, flushing>>
    /\ UNCHANGED <<rlVars, kaPc, strVars, waitVars, histVars>>

\* Transport.WaitForReady called on the transport directly, as the Transport
\* interface allows: the call, and its return.
TransportWaitCall ==
    /\ wpc = "off"
    /\ wpc' = "wait"
    /\ UNCHANGED wres
    /\ UNCHANGED <<sessVars, cliVars, transVars, pc, callVars, rlVars, kaPc, strVars,
                   histVars>>

TransportWaitReturn ==
    /\ wpc = "wait"
    /\ \E w \in WaitForReadyOutcomes : wres' = w
    /\ wpc' = "done"
    /\ UNCHANGED <<sessVars, cliVars, transVars, pc, callVars, rlVars, kaPc, strVars,
                   histVars>>

\* (mutant) the select ignores initErr once readyCh is closed.
HandshakeOutcomes_IgnoreInitErr(c) ==
    (IF readyCh THEN {Nil} ELSE {})
    \cup (IF ctxDone[c] THEN {CtxErr} ELSE {})
    \cup (IF closeCh THEN {SessionError(ClosedDuringInit)} ELSE {})

\* (mutant) the select has no closeCh case.
HandshakeOutcomes_NoCloseCase(c) ==
    (IF readyCh THEN {IF initErr # Nil THEN initErr ELSE Nil} ELSE {})
    \cup (IF ctxDone[c] THEN {CtxErr} ELSE {})

\* What the handshake select of Session.Connect may return, given which of
\* its three channels are ready: "ok" stands for falling through to success.
HandshakeOutcomes(c) ==
    (IF readyCh THEN {IF initErr # Nil THEN initErr ELSE Nil} ELSE {})
    \cup (IF ctxDone[c] THEN {CtxErr} ELSE {})
    \cup (IF closeCh THEN {SessionError(ClosedDuringInit)} ELSE {})

\* The handshake wait of Session.Connect.
Handshake(c) ==
    /\ pc[c] = "hs"
    /\ \E r \in HandshakeOutcomes(c) :
         IF r = Nil
         THEN /\ Goto(c, "fin")
              /\ UNCHANGED <<state, callVars>>
         ELSE /\ state' = "error"
              /\ ConnectReturn(c, r)
    /\ UNCHANGED <<sessionID, connected, msgCh, closeCh, closeOnce, readyCh, readyBy,
                   initErr, toolHandlers, options>>
    /\ UNCHANGED <<cliVars, transVars, rlVars, kaPc, strVars, waitVars, histVars>>

\* The success path of Session.Connect: connected is set, setState(Ready),
\* notifySessionStart, return nil.
ConnectFinish(c) ==
    /\ pc[c] = "fin"
    /\ connected' = TRUE
    /\ state' = "ready"
    /\ notes' = [notes EXCEPT !.start = @ + 1]
    /\ ConnectReturn(c, Nil)
    /\ UNCHANGED <<sessionID, msgCh, closeCh, closeOnce, readyCh, readyBy,
                   initErr, toolHandlers, options, regVars>>
    /\ UNCHANGED <<transVars, rlVars, kaPc, strVars, waitVars, histVars>>

\* ------------------------------------------------------------------- Send
\* (mutant) the User envelope carries the identity as it is, assigned or not.
UserSessionID_NoPlaceholder(sid) == sid

\* The session_id of a User envelope: the identity, or "unknown".
UserSessionID(sid) == IF sid = "" THEN "unknown" ELSE sid

\* Session.Send after the auto-connect: setState(Processing), the User
\* envelope, Transport.Send, which queues the envelope or goes on to write.
SendBody(c) ==
    /\ pc[c] = "s_body"
    /\ state' = "processing"
    /\ LET msg == SDKUserMessage(UserSessionID(sessionID), c) IN
         /\ submitted' = Append(submitted, msg)
         /\ IF SendQueues
            THEN /\ msgQueue' = Append(msgQueue, msg)
                 /\ Return(c, Nil)
            ELSE /\ Goto(c, "s_write")
                 /\ UNCHANGED <<msgQueue, callVars>>
    /\ UNCHANGED <<sessionID, connected, msgCh, closeCh, closeOnce, readyCh, readyBy,
                   initErr, toolHandlers, options>>
    /\ UNCHANGED <<cliVars, conn, status, tReadyCh, tCloseCh, wire, broken, dials, flushing>>
    /\ UNCHANGED <<rlVars, kaPc, strVars, waitVars, nIn, pings, lastTool, seenIds>>

\* The User envelope that caller c handed to the transport last.
PendingUser(c) ==
    LET idx == { i \in 1..Len(submitted) :
                   submitted[i].type = "user" /\ submitted[i].content = c }
    IN submitted[CHOOSE i \in idx : \A j \in idx : j <= i]

\* Session.Send, the write of sendImmediate: Send returns its error.
SendWrite(c) ==
    /\ pc[c] = "s_write"
    /\ \E e \in SendImmediateOutcomes :
         /\ wire' = IF e = Nil THEN Append(wire, PendingUser(c)) ELSE wire
         /\ Return(c, e)
    /\ UNCHANGED <<sessVars, cliVars, conn, status, tReadyCh, tCloseCh, msgQueue, broken,
                   dials, flushing>>
    /\ UNCHANGED <<rlVars, kaPc, strVars, waitVars, histVars>>

\* Session.Send down to the read of the handle and the status that
\* Transport.Send makes under mu.RLock: the choice between the queue and the
\* write is taken here, the lock is released, and the append to the queue
\* under queueMu is a later step (SendAppend).
SendRead(c) ==
    /\ pc[c] = "s_body"
    /\ state' = "processing"
    /\ submitted' = Append(submitted, SDKUserMessage(UserSessionID(sessionID), c))
    /\ Goto(c, IF SendQueues THEN "s_queue" ELSE "s_write")
    /\ UNCHANGED <<msgQueue, callVars>>
    /\ UNCHANGED <<sessionID, connected, msgCh, closeCh, closeOnce, readyCh, readyBy,
                   initErr, toolHandlers, options>>
    /\ UNCHANGED <<cliVars, conn, status, tReadyCh, tCloseCh, wire, broken, dials, flushing>>
    /\ UNCHANGED <<rlVars, kaPc, strVars, waitVars, nIn, pings, lastTool, seenIds>>

\* Transport.Send, the append under queueMu after the choice of SendRead:
\* the message joins the queue whatever the transport has become since, and
\* Send returns nil.
SendAppend(c) ==
    /\ pc[c] = "s_queue"
    /\ msgQueue' = Append(msgQueue, PendingUser(c))
    /\ Return(c, Nil)
    /\ UNCHANGED <<sessVars, cliVars, conn, status, tReadyCh, tCloseCh, wire, broken,
                   dials, flushing, submitted>>
    /\ UNCHANGED <<rlVars, kaPc, strVars, waitVars, nIn, pings, lastTool, seenIds>>

\* ------------------------------------------------------------------ Close
\* Close has no result; called from the transport's close callback
\* (handleClose) it returns into the read loop, which then exits.
CloseReturn(t) ==
    IF t = ReadLoop
    THEN /\ Goto(t, "exit")
         /\ UNCHANGED callVars
    ELSE IF op[t] = "ClientClose"
         THEN /\ Goto(t, "cc_loop")
              /\ UNCHANGED callVars
         ELSE Return(t, Nil)

\* The sessions the registry of the client holds.
Registered == { sessions[k] : k \in DOMAIN sessions }

\* Client.removeSession: delete(c.sessions, sessionID).
RemoveSession(reg, key) == [k \in DOMAIN reg \ {key} |-> reg[k]]

\* (mutant) Close without the once guard: every call enters the body.
CloseBegin_NoOnce(t) ==
    /\ pc[t] = "cl_begin"
    /\ closeOnce' = "running"
    /\ closeCh' = TRUE
    /\ Goto(t, "cl_body")
    /\ UNCHANGED callVars
    /\ UNCHANGED <<sessionID, state, connected, msgCh, readyCh, readyBy, initErr,
                   toolHandlers, options>>
    /\ UNCHANGED <<cliVars, transVars, rlVars, kaPc, strVars, waitVars, histVars>>

\* closeOnce.Do: the first call enters the body and closes closeCh; a call
\* that finds the body done returns; a call that finds it running waits.
CloseBegin(t) ==
    /\ pc[t] = "cl_begin"
    /\ closeOnce # "running"
    /\ IF closeOnce = "idle"
       THEN /\ closeOnce' = "running"
            /\ closeCh' = TRUE
            /\ Goto(t, "cl_body")
            /\ UNCHANGED callVars
       ELSE /\ CloseReturn(t)
            /\ UNCHANGED <<closeOnce, closeCh>>
    /\ UNCHANGED <<sessionID, state, connected, msgCh, readyCh, readyBy, initErr,
                   toolHandlers, options>>
    /\ UNCHANGED <<cliVars, transVars, rlVars, kaPc, strVars, waitVars, histVars>>

CloseEnvelope == ControlEnvelope("close")

\* (mutant) Disconnect releases the handle but leaves closeCh open.
Disconnect_KeepsCloseCh ==
    /\ tCloseCh' = tCloseCh
    /\ conn' = 0
    /\ status' = "disconnected"

\* WebSocketTransport.Disconnect: closeCh is closed (once), the handle is
\* released and its socket closed, the status is Disconnected.
Disconnect ==
    /\ tCloseCh' = TRUE
    /\ conn' = 0
    /\ status' = "disconnected"

\* Transport.Disconnect called on the transport itself; it returns nil.
CallDisconnect(c) ==
    /\ pc[c] = "idle" /\ calls < MaxCalls
    /\ Disconnect
    /\ op' = [op EXCEPT ![c] = "Disconnect"]
    /\ res' = [res EXCEPT ![c] = Nil]
    /\ calls' = calls + 1
    /\ UNCHANGED <<pc, ctxDone, auto>>
    /\ UNCHANGED <<tReadyCh, msgQueue, wire, broken, dials, flushing>>
    /\ UNCHANGED <<sessVars, cliVars, rlVars, kaPc, strVars, waitVars, histVars>>

\* The body of Close: the close frame (its error is dropped);
\* Transport.Disconnect, which closes the transport's closeCh, releases the
\* handle and sets the status Disconnected; client.removeSession(s.sessionID);
\* the OnClose notification; the end of the once body.
CloseBody(t) ==
    /\ pc[t] = "cl_body"
    /\ LET r == TransportSend(CloseEnvelope) IN
         /\ msgQueue' = r.queue
         /\ wire' = r.wire
         /\ submitted' = Append(submitted, CloseEnvelope)
    /\ Disconnect
    /\ sessions' = RemoveSession(sessions, sessionID)
    /\ UNCHANGED <<peers, closing, atClose>>
    /\ notes' = [notes EXCEPT !.end = @ + 1, !.close = @ + 1]
    /\ closeOnce' = "done"
    /\ CloseReturn(t)
    /\ UNCHANGED <<sessionID, state, connected, msgCh, closeCh, readyCh, readyBy,
                   initErr, toolHandlers, options>>
    /\ UNCHANGED <<tReadyCh, broken, dials, flushing>>
    /\ UNCHANGED <<rlVars, kaPc, strVars, waitVars, nIn, pings, lastTool, seenIds>>

\* -------------------------------------------------------------- read loop
\* The remote side gives every tool call an id of its own.
CallIdOf(n) == <<"call", n>>

\* The tool calls the next frame may be: the registered tool with any kind
\* of input, and each tool without a handler.
InboundTools ==
    { ToolCallEnvelope(CallIdOf(nIn + 1), "t_reg", i) :
        i \in {JsonObject, JsonArray, JsonNull} }
    \cup { ToolCallEnvelope(CallIdOf(nIn + 1), "t_decl", JsonObject),
           ToolCallEnvelope(CallIdOf(nIn + 1), "t_unknown", JsonNull) }

\* The non-empty identities a frame carries in a System/init message.
CarriedIds(m) ==
    IF m.type = "system" /\ m.subtype = "init" /\ m.session_id # ""
    THEN {m.session_id} ELSE {}

\* readLoop, one iteration up to the message callback: it exits when the
\* transport was disconnected; a frame is read and handleMessage starts by
\* reading the connected flag.
ReadFrame(frames) ==
    /\ pc[ReadLoop] = "read"
    /\ ~tCloseCh /\ conn # 0 /\ ~broken
    /\ nIn < MaxInbound
    /\ \E m \in frames :
         /\ rlMsg' = m
         /\ rlSnap' = connected
         /\ UNCHANGED rl2
         /\ seenIds' = seenIds \cup CarriedIds(m)
    /\ nIn' = nIn + 1
    /\ Goto(ReadLoop, "handle")
    /\ UNCHANGED <<sessVars, cliVars, transVars, callVars, kaPc, strVars, waitVars>>
    /\ UNCHANGED <<submitted, pings, lastTool>>

\* A frame that does not parse: a ProtocolError to the error callback, and
\* the loop goes on.
\* (mutant) a frame that does not parse also fires the close callback.
ReadMalformed_Closes ==
    /\ pc[ReadLoop] = "read"
    /\ ~tCloseCh /\ conn # 0 /\ ~broken
    /\ nIn < MaxInbound
    /\ nIn' = nIn + 1
    /\ notes' = HandleError(notes, ProtocolError("failed to parse message"))
    /\ Goto(ReadLoop, "cl_begin")
    /\ UNCHANGED <<sessVars, regVars, transVars, callVars, rlVars, kaPc, strVars, waitVars>>
    /\ UNCHANGED <<submitted, pings, lastTool, seenIds>>

ReadMalformed ==
    /\ pc[ReadLoop] = "read"
    /\ ~tCloseCh /\ conn # 0 /\ ~broken
    /\ nIn < MaxInbound
    /\ nIn' = nIn + 1
    /\ notes' = HandleError(notes, ProtocolError("failed to parse message"))
    /\ UNCHANGED <<sessVars, regVars, transVars, pc, callVars, rlVars, kaPc, strVars, waitVars>>
    /\ UNCHANGED <<submitted, pings, lastTool, seenIds>>

\* (mutant) the read loop answers a failed read by reconnecting.
ReadError_Reconnects ==
    /\ pc[ReadLoop] = "read"
    /\ ~tCloseCh /\ conn # 0 /\ broken
    /\ notes' = [HandleError(notes, ConnectionError("read error")) EXCEPT !.tconnect = @ + 1]
    /\ status' = "reconnecting"
    /\ UNCHANGED <<conn, tReadyCh, tCloseCh, msgQueue, wire, broken, dials, flushing>>
    /\ UNCHANGED <<sessVars, regVars, pc, callVars, rlVars, kaPc, strVars, waitVars, histVars>>

\* The read fails although nobody disconnected: a ConnectionError to the
\* error callback, then the close callback, which runs Session.Close.
ReadError ==
    /\ pc[ReadLoop] = "read"
    /\ ~tCloseCh /\ conn # 0 /\ broken
    /\ notes' = HandleError(notes, ConnectionError("read error"))
    /\ Goto(ReadLoop, "cl_begin")
    /\ UNCHANGED <<sessVars, regVars, transVars, callVars, rlVars, kaPc, strVars, waitVars, histVars>>

\* The loop ends once the transport was disconnected.
ReadExit ==
    /\ pc[ReadLoop] = "read"
    /\ tCloseCh \/ conn = 0
    /\ Goto(ReadLoop, "exit")
    /\ UNCHANGED <<sessVars, cliVars, transVars, callVars, rlVars, kaPc, strVars, waitVars, histVars>>

IsReadySignal(m) == m.type = "control" /\ m.action \in {"ready", "session_info"}

IsSystemInit(m) == m.type = "system" /\ m.subtype = "init"

\* (mutant) the identity is assigned without the non-empty check.
NextSessionID_NoEmptyCheck(m, snap, sid) ==
    IF ~snap /\ IsSystemInit(m) THEN m.session_id ELSE sid

\* The session identity after handleMessage saw m with the connected flag
\* read as snap.
NextSessionID(m, snap, sid) ==
    IF ~snap /\ IsSystemInit(m) /\ m.session_id # "" THEN m.session_id ELSE sid

\* readyOnce.Do(close(readyCh)): who closed it first is remembered.
ReadyOnce(who) ==
    /\ readyCh' = TRUE
    /\ readyBy' = IF readyCh THEN readyBy ELSE who

\* (mutant) no message is taken for a tool call.
IsToolCall_Never(m) == FALSE

\* The test of handleMessage that diverts a message to handleToolCall.
IsToolCall(m) == m.type = "tool_call"

\* handleMessage up to the forwarding select: the handshake switch (taken
\* only when the flag was read as not connected), the ToolCall diversion.
HandleMessage ==
    /\ pc[ReadLoop] = "handle"
    /\ sessionID' = NextSessionID(rlMsg, rlSnap, sessionID)
    /\ IF ~rlSnap /\ IsReadySignal(rlMsg)
       THEN /\ ReadyOnce("control")
            /\ UNCHANGED <<initErr, state>>
            /\ Goto(ReadLoop, "read")
       ELSE /\ IF ~rlSnap /\ IsSystemInit(rlMsg)
               THEN ReadyOnce("init") /\ UNCHANGED initErr
               ELSE IF ~rlSnap /\ rlMsg.type = "error"
                    THEN /\ initErr' = SessionError(rlMsg.message)
                         /\ ReadyOnce("error")
                    ELSE UNCHANGED <<initErr, readyCh, readyBy>>
            /\ IF IsToolCall(rlMsg)
               THEN /\ state' = "waiting_tool"
                    /\ Goto(ReadLoop, "tool")
               ELSE /\ Goto(ReadLoop, "fwd")
                    /\ UNCHANGED state
    /\ UNCHANGED <<connected, msgCh, closeCh, closeOnce, toolHandlers, options>>
    /\ UNCHANGED <<cliVars, transVars, callVars, rlVars, kaPc, strVars, waitVars, histVars>>

\* The forwarding select of handleMessage: the message goes into msgCh when
\* there is room, or is dropped when closeCh is closed.
ForwardMsg ==
    /\ pc[ReadLoop] = "fwd"
    /\ Len(msgCh) < MsgChCap
    /\ msgCh' = Append(msgCh, rlMsg)
    /\ Goto(ReadLoop, "read")
    /\ UNCHANGED <<sessionID, state, connected, closeCh, closeOnce, readyCh, readyBy,
                   initErr, toolHandlers, options>>
    /\ UNCHANGED <<cliVars, transVars, callVars, rlVars, kaPc, strVars, waitVars, histVars>>

ForwardDrop ==
    /\ pc[ReadLoop] = "fwd"
    /\ closeCh
    /\ Goto(ReadLoop, "read")
    /\ UNCHANGED <<sessVars, cliVars, transVars, callVars, rlVars, kaPc, strVars, waitVars, histVars>>

\* The name->value mapping the handler gets: the payload itself when it is
\* an object, else what re-encoding through JSON leaves in a nil map.
ConvertInput(input) == IF input.kind = "object" THEN input ELSE NilMap

NotFoundResult(name) ==
    ToolResult(<<TextToolContent(<<"Tool not found: ", name>>)>>, TRUE)

\* (mutant) the handler's result is flagged as an error whenever it has content.
HandlerResult_FlagsContent(o) ==
    IF o.err # ""
    THEN ToolResult(<<TextToolContent(<<"Tool execution error: ", o.err>>)>>, TRUE)
    ELSE ToolResult(o.result.content, o.result.content # <<>>)

\* (mutant) the handler's error is dropped and its result passed on.
HandlerResult_DropsError(o) == o.result

\* The result for a handler outcome: a handler error becomes an error result.
HandlerResult(o) ==
    IF o.err # ""
    THEN ToolResult(<<TextToolContent(<<"Tool execution error: ", o.err>>)>>, TRUE)
    ELSE o.result

\* The ToolResult envelope for a call, given whether its tool is registered
\* and what the handler returned.
ToolReply(call, registry, o) ==
    ToolResultEnvelope(call.callId,
        IF call.toolName \in registry THEN HandlerResult(o)
        ELSE NotFoundResult(call.toolName))

\* handleToolCall after setState(WaitingTool): the lookup, the handler, the
\* ToolResult envelope, handleError when its send fails, setState(Processing).
HandleToolCall ==
    /\ pc[ReadLoop] = "tool"
    /\ \E o \in (IF rlMsg.toolName \in toolHandlers THEN HandlerOutcomes
                 ELSE {[err |-> "", result |-> ToolResult(<<>>, FALSE)]}) :
         LET reply == ToolReply(rlMsg, toolHandlers, o)
             r == TransportSend(reply) IN
           /\ msgQueue' = r.queue
           /\ wire' = r.wire
           /\ submitted' = Append(submitted, reply)
           /\ notes' = IF r.err # Nil THEN HandleError(notes, r.err) ELSE notes
           /\ lastTool' = [ran |-> TRUE, call |-> rlMsg,
                           found |-> rlMsg.toolName \in toolHandlers,
                           input |-> ConvertInput(rlMsg.input),
                           outcome |-> o, reply |-> reply]
    /\ state' = "processing"
    /\ Goto(ReadLoop, "read")
    /\ UNCHANGED <<sessionID, connected, msgCh, closeCh, closeOnce, readyCh, readyBy,
                   initErr, toolHandlers, options, regVars>>
    /\ UNCHANGED <<conn, status, tReadyCh, tCloseCh, broken, dials, flushing>>
    /\ UNCHANGED <<callVars, rlVars, kaPc, strVars, waitVars, nIn, pings, seenIds>>

\* ----------------------------------------------------------------- Client
\* Client.CreateSession: c.sessions[session.ID()] = session, with the identity
\* of a new session, the empty string, as the key.
FileSession(reg, s) == ("" :> s) @@ reg

\* Client.CreateSession (also through ResumeSession and Prompt) for one of
\* the peer sessions.
CreateSession(p) ==
    /\ ~peers[p].made
    /\ peers' = [peers EXCEPT ![p].made = TRUE]
    /\ sessions' = FileSession(sessions, p)
    /\ UNCHANGED <<closing, atClose, notes>>
    /\ UNCHANGED <<sessVars, transVars, pc, callVars, rlVars, kaPc, strVars, waitVars, histVars>>

\* The handshake of a peer session: the remote side assigns its identity.
PeerIdentity(p) ==
    /\ peers[p].made /\ ~peers[p].closed /\ peers[p].id = ""
    /\ peers' = [peers EXCEPT ![p].id = PeerIdOf(p)]
    /\ UNCHANGED <<sessions, closing, atClose, notes>>
    /\ UNCHANGED <<sessVars, transVars, pc, callVars, rlVars, kaPc, strVars, waitVars, histVars>>

\* Session.Close of a peer session: the once guard, removeSession under the
\* identity the session has now, the OnSessionEnd notification.
PeerCloseBody(p) ==
    IF peers[p].closed
    THEN UNCHANGED <<peers, sessions, notes>>
    ELSE /\ peers' = [peers EXCEPT ![p].closed = TRUE]
         /\ sessions' = RemoveSession(sessions, peers[p].id)
         /\ notes' = [notes EXCEPT !.end = @ + 1]

\* The owner of a peer session closes it (Prompt does when it returns).
PeerClose(p) ==
    /\ peers[p].made /\ ~peers[p].closed
    /\ PeerCloseBody(p)
    /\ UNCHANGED <<closing, atClose>>
    /\ UNCHANGED <<sessVars, transVars, pc, callVars, rlVars, kaPc, strVars, waitVars, histVars>>

\* The sessions created through the client, and those whose Close ran.
Created == {MainSession} \cup { p \in PeerIds : peers[p].made }

Closed(s) == IF s = MainSession THEN closeOnce = "done" ELSE peers[s].closed

\* Client.Close, up to the unlock: the values of the registry are copied.
CallClientClose(c) ==
    /\ pc[c] = "idle" /\ calls < MaxCalls
    /\ Goto(c, "cc_loop")
    /\ op' = [op EXCEPT ![c] = "ClientClose"]
    /\ calls' = calls + 1
    /\ auto' = [auto EXCEPT ![c] = "none"]
    /\ closing' = Registered
    /\ atClose' = [live |-> { s \in Created : ~Closed(s) },
                   listed |-> Registered]
    /\ UNCHANGED <<res, ctxDone, sessions, peers, notes>>
    /\ UNCHANGED <<sessVars, transVars, rlVars, kaPc, strVars, waitVars, histVars>>

\* Client.Close, one iteration of its loop: s.Close() on a copied session.
ClientCloseNext(c) ==
    /\ pc[c] = "cc_loop"
    /\ \E s \in closing :
         /\ closing' = closing \ {s}
         /\ IF s = MainSession
            THEN /\ Goto(c, "cl_begin")
                 /\ UNCHANGED <<peers, sessions, notes>>
            ELSE /\ PeerCloseBody(s)
                 /\ UNCHANGED pc
    /\ UNCHANGED <<atClose, callVars>>
    /\ UNCHANGED <<sessVars, transVars, rlVars, kaPc, strVars, waitVars, histVars>>

\* Client.Close returns after the last copied session.
ClientCloseDone(c) ==
    /\ pc[c] = "cc_loop"
    /\ closing = {}
    /\ Return(c, Nil)
    /\ UNCHANGED <<sessVars, cliVars, transVars, rlVars, kaPc, strVars, waitVars, histVars>>

\* ----------------------------------------------------------------- Prompt
\* The Stream call that Client.Prompt ranges over.
PromptStreamId == "st1"

\* What Prompt returns with a nil error: the result made of a Result message.
PromptOk(m) == [code |-> "nil", message |-> "", result |-> m]

\* The Result messages among those the Stream gave to Prompt.
ResultsOf(msgs) == { i \in 1..Len(msgs) : msgs[i].type = "result" }

\* (mutant) Prompt returns no result and no error when none was received.
PromptOutcome_NilNil(msgs) ==
    IF ResultsOf(msgs) # {}
    THEN PromptOk(msgs[CHOOSE i \in ResultsOf(msgs) : \A j \in ResultsOf(msgs) : j <= i])
    ELSE Nil

\* What Prompt returns after its range over Stream: the last Result seen,
\* or the SessionError "no result received".
PromptOutcome(msgs) ==
    IF ResultsOf(msgs) # {}
    THEN PromptOk(msgs[CHOOSE i \in ResultsOf(msgs) : \A j \in ResultsOf(msgs) : j <= i])
    ELSE SessionError("no result received")

\* Client.Prompt on the session it has just created: defer Close, Send.
CallPrompt(c) ==
    /\ pc[c] = "idle" /\ calls = 0
    /\ Goto(c, "c_begin")
    /\ op' = [op EXCEPT ![c] = "Prompt"]
    /\ calls' = calls + 1
    /\ auto' = [auto EXCEPT ![c] = "connecting"]
    /\ UNCHANGED <<res, ctxDone>>
    /\ UNCHANGED <<sessVars, cliVars, transVars, rlVars, kaPc, strVars, waitVars, histVars>>

\* Prompt calls session.Stream(ctx) and starts to range over its channel.
PromptStream(c) ==
    /\ pc[c] = "p_stream"
    /\ spc[PromptStreamId] = "off"
    /\ spc' = [spc EXCEPT ![PromptStreamId] = "wait"]
    /\ Goto(c, "p_range")
    /\ UNCHANGED <<sctx, held, delivered, callVars>>
    /\ UNCHANGED <<sessVars, cliVars, transVars, rlVars, kaPc, waitVars, histVars>>

\* The channel of the Stream is closed: the range ends, Prompt decides what
\* it returns and the deferred Close starts.
PromptDone(c) ==
    /\ pc[c] = "p_range"
    /\ spc[PromptStreamId] = "done"
    /\ res' = [res EXCEPT ![c] = PromptOutcome(delivered[PromptStreamId])]
    /\ Goto(c, "cl_begin")
    /\ UNCHANGED <<op, ctxDone, calls, auto>>
    /\ UNCHANGED <<sessVars, cliVars, transVars, rlVars, kaPc, strVars, waitVars, histVars>>

\* ------------------------------------------------- the second read loop
\* Transport.Connect starts a read loop on every call; the loop a call
\* starts while another one runs reads the same connection handle and calls
\* the same handleMessage.
Read2Frame(frames) ==
    /\ rl2.pc = "read"
    /\ ~tCloseCh /\ conn # 0 /\ ~broken
    /\ nIn < MaxInbound
    /\ \E m \in frames :
         /\ rl2' = [pc |-> "handle", msg |-> m, snap |-> connected]
         /\ seenIds' = seenIds \cup CarriedIds(m)
    /\ nIn' = nIn + 1
    /\ UNCHANGED <<sessVars, cliVars, transVars, pc, callVars, rlMsg, rlSnap, kaPc, strVars, waitVars>>
    /\ UNCHANGED <<submitted, pings, lastTool>>

Handle2Message ==
    /\ rl2.pc = "handle"
    /\ sessionID' = NextSessionID(rl2.msg, rl2.snap, sessionID)
    /\ IF ~rl2.snap /\ IsReadySignal(rl2.msg)
       THEN /\ ReadyOnce("control")
            /\ UNCHANGED <<initErr, state>>
            /\ rl2' = [rl2 EXCEPT !.pc = "read"]
       ELSE /\ IF ~rl2.snap /\ IsSystemInit(rl2.msg)
               THEN ReadyOnce("init") /\ UNCHANGED initErr
               ELSE IF ~rl2.snap /\ rl2.msg.type = "error"
                    THEN /\ initErr' = SessionError(rl2.msg.message)
                         /\ ReadyOnce("error")
                    ELSE UNCHANGED <<initErr, readyCh, readyBy>>
            /\ IF IsToolCall(rl2.msg)
               THEN /\ state' = "waiting_tool"
                    /\ rl2' = [rl2 EXCEPT !.pc = "tool"]
               ELSE /\ rl2' = [rl2 EXCEPT !.pc = "fwd"]
                    /\ UNCHANGED state
    /\ UNCHANGED <<connected, msgCh, closeCh, closeOnce, toolHandlers, options>>
    /\ UNCHANGED <<cliVars, transVars, pc, callVars, rlMsg, rlSnap, kaPc, strVars, waitVars, histVars>>

Forward2Msg ==
    /\ rl2.pc = "fwd"
    /\ Len(msgCh) < MsgChCap
    /\ msgCh' = Append(msgCh, rl2.msg)
    /\ rl2' = [rl2 EXCEPT !.pc = "read"]
    /\ UNCHANGED <<sessionID, state, connected, closeCh, closeOnce, readyCh, readyBy,
                   initErr, toolHandlers, options>>
    /\ UNCHANGED <<cliVars, transVars, pc, callVars, rlMsg, rlSnap, kaPc, strVars, waitVars, histVars>>

Handle2ToolCall ==
    /\ rl2.pc = "tool"
    /\ \E o \in (IF rl2.msg.toolName \in toolHandlers THEN HandlerOutcomes
                 ELSE {[err |-> "", result |-> ToolResult(<<>>, FALSE)]}) :
         LET reply == ToolReply(rl2.msg, toolHandlers, o)
             r == TransportSend(reply) IN
           /\ msgQueue' = r.queue
           /\ wire' = r.wire
           /\ submitted' = Append(submitted, reply)
           /\ notes' = IF r.err # Nil THEN HandleError(notes, r.err) ELSE notes
           /\ lastTool' = [ran |-> TRUE, call |-> rl2.msg,
                           found |-> rl2.msg.toolName \in toolHandlers,
                           input |-> ConvertInput(rl2.msg.input),
                           outcome |-> o, reply |-> reply]
    /\ state' = "processing"
    /\ rl2' = [rl2 EXCEPT !.pc = "read"]
    /\ UNCHANGED <<sessionID, connected, msgCh, closeCh, closeOnce, readyCh, readyBy,
                   initErr, toolHandlers, options, regVars>>
    /\ UNCHANGED <<conn, status, tReadyCh, tCloseCh, broken, dials, flushing>>
    /\ UNCHANGED <<pc, callVars, rlMsg, rlSnap, kaPc, strVars, waitVars, nIn, pings, seenIds>>

Loop2Step(frames) ==
    \/ Read2Frame(frames) \/ Handle2Message \/ Forward2Msg \/ Handle2ToolCall

\* ------------------------------------------------------------- keep-alive
\* keepAliveLoop: a Ping on each tick, an error callback when its send
\* fails. The select may take a tick that is due although closeCh is closed.
KeepAliveTick ==
    /\ kaPc = "run"
    /\ pings < MaxPings
    /\ pings' = pings + 1
    /\ LET r == TransportSend(PingEnvelope) IN
         /\ msgQueue' = r.queue
         /\ wire' = r.wire
         /\ notes' = IF r.err # Nil THEN HandleError(notes, r.err) ELSE notes
    /\ UNCHANGED <<sessVars, regVars, conn, status, tReadyCh, tCloseCh, broken, dials, flushing>>
    /\ UNCHANGED <<pc, callVars, rlVars, kaPc, strVars, waitVars, submitted, nIn, lastTool, seenIds>>

\* The select takes closeCh: the loop ends once the transport was disconnected.
KeepAliveExit ==
    /\ kaPc = "run" /\ tCloseCh
    /\ kaPc' = "exit"
    /\ UNCHANGED <<sessVars, cliVars, transVars, pc, callVars, rlVars, strVars, waitVars, histVars>>

\* ----------------------------------------------------------------- Stream
\* Session.Stream: the goroutine starts.
StreamStart(s) ==
    /\ spc[s] = "off"
    /\ spc' = [spc EXCEPT ![s] = "wait"]
    /\ UNCHANGED <<sctx, held, delivered>>
    /\ UNCHANGED <<sessVars, cliVars, transVars, pc, callVars, rlVars, kaPc, waitVars, histVars>>

\* (mutant) the message is read and left in msgCh.
StreamRecv_Peek(s) ==
    /\ spc[s] = "wait"
    /\ msgCh # <<>>
    /\ held' = [held EXCEPT ![s] = Head(msgCh)]
    /\ spc' = [spc EXCEPT ![s] = "fwd"]
    /\ UNCHANGED <<sctx, delivered>>
    /\ UNCHANGED <<sessVars, cliVars, transVars, pc, callVars, rlVars, kaPc, waitVars, histVars>>

\* The outer select takes a message from msgCh.
StreamRecv(s) ==
    /\ spc[s] = "wait"
    /\ msgCh # <<>>
    /\ held' = [held EXCEPT ![s] = Head(msgCh)]
    /\ msgCh' = Tail(msgCh)
    /\ spc' = [spc EXCEPT ![s] = "fwd"]
    /\ UNCHANGED <<sctx, delivered>>
    /\ UNCHANGED <<sessionID, state, connected, closeCh, closeOnce, readyCh, readyBy,
                   initErr, toolHandlers, options>>
    /\ UNCHANGED <<cliVars, transVars, pc, callVars, rlVars, kaPc, waitVars, histVars>>

\* (mutant) the goroutine goes on waiting after a Result.
StreamForward_NoStop(s) ==
    /\ spc[s] = "fwd"
    /\ delivered' = [delivered EXCEPT ![s] = Append(@, held[s])]
    /\ held' = [held EXCEPT ![s] = NoMsg]
    /\ spc' = [spc EXCEPT ![s] = "wait"]
    /\ UNCHANGED <<sctx, state>>
    /\ UNCHANGED <<sessionID, connected, msgCh, closeCh, closeOnce, readyCh, readyBy,
                   initErr, toolHandlers, options>>
    /\ UNCHANGED <<cliVars, transVars, pc, callVars, rlVars, kaPc, waitVars, histVars>>

\* The inner select hands the message to the consumer; after a Result the
\* state is Completed and the goroutine returns, closing its channel.
StreamForward(s) ==
    /\ spc[s] = "fwd"
    /\ delivered' = [delivered EXCEPT ![s] = Append(@, held[s])]
    /\ held' = [held EXCEPT ![s] = NoMsg]
    /\ IF held[s].type = "result"
       THEN /\ state' = "completed"
            /\ spc' = [spc EXCEPT ![s] = "done"]
       ELSE /\ spc' = [spc EXCEPT ![s] = "wait"]
            /\ UNCHANGED state
    /\ UNCHANGED sctx
    /\ UNCHANGED <<sessionID, connected, msgCh, closeCh, closeOnce, readyCh, readyBy,
                   initErr, toolHandlers, options>>
    /\ UNCHANGED <<cliVars, transVars, pc, callVars, rlVars, kaPc, waitVars, histVars>>

\* (mutant) only the outer select has the ctx.Done() and closeCh cases.
StreamStop_OuterOnly(s) ==
    /\ spc[s] = "wait"
    /\ sctx[s] \/ closeCh
    /\ spc' = [spc EXCEPT ![s] = "done"]
    /\ held' = [held EXCEPT ![s] = NoMsg]
    /\ UNCHANGED <<sctx, delivered>>
    /\ UNCHANGED <<sessVars, cliVars, transVars, pc, callVars, rlVars, kaPc, waitVars, histVars>>

\* Either select takes ctx.Done() or closeCh: the goroutine returns.
StreamStop(s) ==
    /\ spc[s] \in {"wait", "fwd"}
    /\ sctx[s] \/ closeCh
    /\ spc' = [spc EXCEPT ![s] = "done"]
    /\ held' = [held EXCEPT ![s] = NoMsg]
    /\ UNCHANGED <<sctx, delivered>>
    /\ UNCHANGED <<sessVars, cliVars, transVars, pc, callVars, rlVars, kaPc, waitVars, histVars>>

\* The caller cancels the context of a running Stream.
StreamCancel(s) ==
    /\ spc[s] \in {"wait", "fwd"}
    /\ ~sctx[s]
    /\ sctx' = [sctx EXCEPT ![s] = TRUE]
    /\ UNCHANGED <<spc, held, delivered>>
    /\ UNCHANGED <<sessVars, cliVars, transVars, pc, callVars, rlVars, kaPc, waitVars, histVars>>

\* ------------------------------------------------------------ environment
\* The socket breaks: writes fail and the pending read fails.
NetFail ==
    /\ conn # 0 /\ ~broken
    /\ broken' = TRUE
    /\ UNCHANGED <<conn, status, tReadyCh, tCloseCh, msgQueue, wire, dials, flushing>>
    /\ UNCHANGED <<sessVars, cliVars, pc, callVars, rlVars, kaPc, strVars, waitVars, histVars>>

\* ------------------------------------------------------------------- Spec
ApiCall(c) == CallConnect(c) \/ CallSend(c) \/ CallClose(c)

ConnectStep(c) ==
    \/ ConnectBegin(c) \/ DialOk(c) \/ DialFail(c)
    \/ FlushQueue(c) \/ FlushWrite(c)
    \/ WaitForReady(c) \/ InitWrite(c)
    \/ CtxCancel(c) \/ Handshake(c) \/ ConnectFinish(c)

CallerStep(c) == ApiCall(c) \/ ConnectStep(c) \/ SendBody(c) \/ SendWrite(c)

CloseStep(t) == CloseBegin(t) \/ CloseBody(t)

\* The read loop on a socket that does not break.
ReadLoopStep(frames) ==
    \/ ReadFrame(frames) \/ ReadMalformed \/ ReadExit
    \/ HandleMessage \/ ForwardMsg \/ ForwardDrop

StreamStep(s) ==
    \/ StreamStart(s) \/ StreamRecv(s) \/ StreamForward(s)
    \/ StreamStop(s) \/ StreamCancel(s)

\* The handshake: one caller with every call, a second caller that closes,
\* and the frames the handshake reads.
HandshakeFrames ==
    { ControlEnvelope("ready"), SDKSystemMessage("init", "s1"),
      ErrorEnvelope("e1"), ErrorEnvelope("e2") }

Next ==
    \/ CallerStep("c1")
    \/ CallClose("c2")
    \/ \E t \in Callers : CloseStep(t)
    \/ ReadLoopStep(HandshakeFrames)

Spec == Init /\ [][Next]_vars

\* WaitForReady, inside Session.Connect and on the transport directly.
NextWait ==
    \/ \E c \in Callers : CallerStep(c)
    \/ \E t \in Callers : CloseStep(t)
    \/ ReadLoopStep({ControlEnvelope("ready")})
    \/ TransportWaitCall \/ TransportWaitReturn

SpecWait == Init /\ [][NextWait]_vars

\* The session identity: the frames that carry one, or none.
IdentityFrames ==
    { ControlEnvelope("ready"), SDKSystemMessage("init", ""),
      SDKSystemMessage("init", "s1"), SDKSystemMessage("init", "s2") }

NextIdentity ==
    \/ CallerStep("c1")
    \/ CallClose("c2")
    \/ \E t \in Callers : CloseStep(t)
    \/ ReadLoopStep(IdentityFrames)

SpecIdentity == Init /\ [][NextIdentity]_vars

\* Frames for the runs on a socket that may break.
NetFrames == { ControlEnvelope("ready"), ErrorEnvelope("e1") }

\* Close from every thread: two callers that connect and close, and the read
\* loop, which runs Close from the close callback after a read error.
NextClose ==
    \/ \E c \in Callers : CallConnect(c) \/ CallClose(c) \/ ConnectStep(c)
    \/ \E t \in Threads : CloseStep(t)
    \/ ReadFrame({ControlEnvelope("ready")}) \/ ReadExit
    \/ HandleMessage \/ ForwardMsg \/ ForwardDrop
    \/ ReadError
    \/ NetFail

SpecClose == Init /\ [][NextClose]_vars

\* Send on a socket that may break: one caller with every call, a second
\* caller that closes, and the read loop with its Close.
NextSend ==
    \/ CallerStep("c1")
    \/ CallClose("c2")
    \/ \E t \in Threads : CloseStep(t)
    \/ ReadLoopStep(NetFrames)
    \/ ReadError
    \/ NetFail

SpecSend == Init /\ [][NextSend]_vars

\* The keep-alive loop next to one caller.
NextKeepAlive ==
    \/ CallerStep("c1")
    \/ CloseStep("c1") \/ CloseStep(ReadLoop)
    \/ ReadLoopStep({ControlEnvelope("ready")})
    \/ ReadError
    \/ KeepAliveTick \/ KeepAliveExit
    \/ NetFail

SpecKeepAlive == Init /\ [][NextKeepAlive]_vars

\* The transport under direct Disconnect calls: a caller that connects, two
\* that disconnect, the read loop with its Close, the keep-alive loop.
ReadLoopRuns ==
    \/ ReadFrame({ControlEnvelope("ready")}) \/ ReadExit
    \/ HandleMessage \/ ForwardMsg
    \/ ReadError \/ CloseStep(ReadLoop)

NextTransport ==
    \/ CallConnect("c1")
    \/ ConnectBegin("c1") \/ DialOk("c1") \/ DialFail("c1")
    \/ FlushQueue("c1") \/ FlushWrite("c1")
    \/ WaitForReady("c1") \/ InitWrite("c1") \/ Handshake("c1") \/ ConnectFinish("c1")
    \/ CallDisconnect("c2")
    \/ ReadLoopRuns
    \/ KeepAliveTick \/ KeepAliveExit
    \/ NetFail

\* Both loops are scheduled: a loop that can take a step takes one.
SpecTransport ==
    /\ Init /\ [][NextTransport]_vars
    /\ WF_vars(KeepAliveExit) /\ WF_vars(ReadLoopRuns)

\* Client.Prompt: one caller that prompts, a second that closes the session
\* of the prompt (as Client.Close does), the read loop on a socket that may
\* break, the Stream goroutine of the prompt.
PromptFrames ==
    { ControlEnvelope("ready"), ErrorEnvelope("e1"),
      SDKAssistantMessage, SDKResultMessage }

NextPrompt ==
    \/ CallPrompt("c1") \/ ConnectStep("c1") \/ SendBody("c1") \/ SendWrite("c1")
    \/ PromptStream("c1") \/ PromptDone("c1")
    \/ StreamRecv("st1") \/ StreamForward("st1") \/ StreamStop("st1") \/ StreamCancel("st1")
    \/ CallClose("c2")
    \/ \E t \in Threads : CloseStep(t)
    \/ ReadLoopStep(PromptFrames) \/ ReadError
    \/ NetFail

SpecPrompt == Init /\ [][NextPrompt]_vars

\* Client.Prompt alone on its session: the remote side sends the ready signal,
\* answers the prompt once it was written, and may drop the connection at any
\* moment; nobody else closes the session and the context of Prompt is never
\* cancelled. The session is then closed by the close callback of the read
\* loop, which forwards nothing afterwards, or by the deferred Close of Prompt
\* once its Stream has ended: whatever the buffer holds when the Stream ends
\* was placed there before the close.
DropFrames ==
    IF \E i \in 1..Len(wire) : wire[i].type = "user"
    THEN { SDKAssistantMessage, SDKResultMessage }
    ELSE { ControlEnvelope("ready") }

NextDrop ==
    \/ CallPrompt("c1") \/ ConnectBegin("c1") \/ DialOk("c1") \/ DialFail("c1")
    \/ FlushQueue("c1") \/ WaitForReady("c1") \/ InitWrite("c1")
    \/ Handshake("c1") \/ ConnectFinish("c1")
    \/ SendBody("c1") \/ SendWrite("c1")
    \/ PromptStream("c1") \/ PromptDone("c1")
    \/ StreamRecv("st1") \/ StreamForward("st1") \/ StreamStop("st1")
    \/ \E t \in Threads : CloseStep(t)
    \/ ReadFrame(DropFrames) \/ HandleMessage \/ ForwardMsg \/ ReadError
    \/ NetFail

SpecDrop == Init /\ [][NextDrop]_vars

\* Turns on a connected session: a caller that sends, messages that carry
\* the uuid the remote side gave them, a Stream call and a second one made
\* after the first has ended.
TurnFrames ==
    { [type |-> "assistant", uuid |-> nIn + 1], [type |-> "result", uuid |-> nIn + 1] }

NextTurns ==
    \/ CallSend("c1") \/ SendBody("c1") \/ SendWrite("c1")
    \/ ReadFrame(TurnFrames) \/ HandleMessage \/ ForwardMsg
    \/ StreamStart("st1")
    \/ (spc["st1"] = "done" /\ StreamStart("st2"))
    \/ \E s \in AllStreams : StreamRecv(s) \/ StreamForward(s)

SpecTurns == InitReady /\ [][NextTurns]_vars

\* A connected session whose buffer is full: the read loops, one Stream
\* call and a caller that closes the session.
FullFrames ==
    { SDKAssistantMessage, ToolCallEnvelope(CallIdOf(nIn + 1), "t_unknown", JsonNull) }

NextFull ==
    \/ ReadLoopStep(FullFrames) \/ HandleToolCall
    \/ Loop2Step(FullFrames)
    \/ StreamStep("st1")
    \/ CallClose("c1") \/ CloseStep("c1")

SpecFull == InitFull /\ [][NextFull]_vars

\* The same on an empty buffer. The Stream goroutine is scheduled: a select
\* with a ready ctx.Done() or closeCh case does not wait for ever. Nothing
\* makes the consumer read or the remote side send.
SpecStop == ReadyWith(<<>>, 2) /\ [][NextFull]_vars /\ WF_vars(StreamStop("st1"))

\* A connected session with a Stream call while the background tasks meet
\* errors: frames that do not parse, a socket that breaks under the read
\* loop, the keep-alive loop and the reply to a tool call; a caller may
\* close the session.
AsyncFrames ==
    TurnFrames \cup { ToolCallEnvelope(CallIdOf(nIn + 1), "t_unknown", JsonNull) }

NextAsync ==
    \/ ReadLoopStep(AsyncFrames) \/ HandleToolCall \/ ReadError \/ NetFail
    \/ KeepAliveTick \/ KeepAliveExit
    \/ StreamStep("st1")
    \/ CallClose("c1")
    \/ \E t \in Threads : CloseStep(t)

SpecAsync == InitReady /\ [][NextAsync]_vars

\* Connect called again while the handshake of an earlier call has not
\* marked the session connected, or after it failed: two read loops.
RetryFrames ==
    { ControlEnvelope("ready"), SDKAssistantMessage,
      ToolCallEnvelope(CallIdOf(nIn + 1), "t_reg", JsonObject) }

NextRetry ==
    \/ \E c \in Callers : CallConnect(c) \/ ConnectStep(c)
    \/ ReadLoopStep(RetryFrames) \/ HandleToolCall
    \/ Loop2Step(RetryFrames)

SpecRetry == Init /\ [][NextRetry]_vars

\* Two callers Connect or Send on a session that is not connected yet: each
\* Send connects by itself, the read loops deliver the ready signal, and
\* Transport.Send reads the transport and appends to its queue in two steps.
RaceFrames == { ControlEnvelope("ready"), SDKAssistantMessage }

NextRace ==
    \/ \E c \in Callers :
          \/ CallConnect(c) \/ CallSend(c) \/ ConnectStep(c)
          \/ SendRead(c) \/ SendAppend(c) \/ SendWrite(c)
    \/ ReadFrame(RaceFrames) \/ HandleMessage \/ ForwardMsg
    \/ Read2Frame(RaceFrames) \/ Handle2Message \/ Forward2Msg

SpecRace == Init /\ [][NextRace]_vars

\* One Stream consumer whose context is never cancelled, on a session that
\* callers connect: the remote side sends envelopes that are all handed on to
\* the stream (System/init and Error also during the handshake), each
\* numbered with its place in the order of the reads.
OrderFrames ==
    { [type |-> "system", subtype |-> "init", session_id |-> "s1", uuid |-> nIn + 1],
      [type |-> "error", message |-> "e1", uuid |-> nIn + 1],
      [type |-> "assistant", uuid |-> nIn + 1] }

NextOrder ==
    \/ \E c \in Callers :
          \/ CallConnect(c) \/ ConnectBegin(c) \/ DialOk(c) \/ DialFail(c)
          \/ FlushQueue(c) \/ WaitForReady(c) \/ InitWrite(c)
          \/ Handshake(c) \/ ConnectFinish(c)
    \/ ReadFrame(OrderFrames) \/ HandleMessage \/ ForwardMsg
    \/ Read2Frame(OrderFrames) \/ Handle2Message \/ Forward2Msg
    \/ StreamStart("st1") \/ StreamRecv("st1") \/ StreamForward("st1")

SpecOrder == Init /\ [][NextOrder]_vars

\* Two Stream calls at the same time on a connected session.
NextFanOut ==
    \/ ReadFrame(TurnFrames) \/ HandleMessage \/ ForwardMsg
    \/ \E s \in AllStreams : StreamStep(s)

SpecFanOut == InitReady /\ [][NextFanOut]_vars

\* A created or resumed session, with the frames that carry an identity.
SpecResume == InitResume /\ [][NextIdentity]_vars

\* Tool calls: one caller, every tool call of the alphabet.
ToolFrames == {ControlEnvelope("ready")} \cup InboundTools

NextTools ==
    \/ CallConnect("c1") \/ ConnectStep("c1")
    \/ CallClose("c1") \/ CloseStep("c1")
    \/ ReadFrame(ToolFrames) \/ ReadExit
    \/ HandleMessage \/ HandleToolCall

SpecTools == Init /\ [][NextTools]_vars

\* The client: a caller that connects and closes the main session, peer
\* sessions that are created, get an identity and are closed, and a caller
\* that runs Client.Close.
ClientFrames == { ControlEnvelope("ready"), SDKSystemMessage("init", "s1") }

ClientCloseStep(c) == CallClientClose(c) \/ ClientCloseNext(c) \/ ClientCloseDone(c)

NextClient ==
    \/ CallConnect("c1") \/ ConnectStep("c1") \/ CallClose("c1")
    \/ \E t \in Callers : CloseStep(t)
    \/ ReadLoopStep(ClientFrames)
    \/ \E p \in PeerIds : CreateSession(p) \/ PeerIdentity(p) \/ PeerClose(p)
    \/ ClientCloseStep("c2")

SpecClient == Init /\ [][NextClient]_vars

\* Tool calls among the messages of a stream: a caller that connects and
\* closes, one consumer, tool calls before and after the handshake.
DivertFrames ==
    { ControlEnvelope("ready"), SDKAssistantMessage,
      ToolCallEnvelope(CallIdOf(nIn + 1), "t_unknown", JsonNull) }

NextDivert ==
    \/ CallConnect("c1") \/ ConnectStep("c1")
    \/ CallClose("c1") \/ CloseStep("c1")
    \/ ReadLoopStep(DivertFrames) \/ HandleToolCall
    \/ StreamStep("st1")

SpecDivert == Init /\ [][NextDivert]_vars

\* Stream: one consumer, a caller that connects, sends and closes.
StreamFrames ==
    { ControlEnvelope("ready"), SDKSystemMessage("init", "s1"),
      SDKAssistantMessage, SDKResultMessage }

NextStream ==
    \/ CallerStep("c1") \/ CloseStep("c1")
    \/ ReadLoopStep(StreamFrames)
    \/ StreamStep("st1")

SpecStream == Init /\ [][NextStream]_vars


\* ------------------------------------------------------------------ claims
Last(q) == q[Len(q)]

IsCloseFrame(m) == m.type = "control" /\ m.action = "close"

\* The close frames among the envelopes handed to the transport.
CloseFrames == Cardinality({ i \in 1..Len(submitted) : IsCloseFrame(submitted[i]) })

\* C1: when a Control "ready" completed the handshake, Connect succeeds on
\* that signal alone, and a System/init message handled afterwards, also
\* after Connect marked the session connected, has set the session identity
\* to the identity it carries by the time it is forwarded to the stream.
C1_ReadyThenInitSetsIdentity ==
    /\ \A c \in Callers :
         (pc[c] = "hs" /\ readyBy = "control" /\ initErr = Nil
            /\ ~ctxDone[c] /\ ~closeCh) => HandshakeOutcomes(c) = {Nil}
    /\ (readyBy = "control" /\ pc[ReadLoop] = "fwd" /\ IsSystemInit(rlMsg)
          /\ rlMsg.session_id # "") => sessionID = rlMsg.session_id

\* C2: the session identity is empty unless a System/init message with a
\* non-empty identity was received, and carries such an identity; once it is
\* non-empty no step makes it empty again.
C2_IdentityAssignedOnce ==
    [][ /\ (sessionID' # "" => sessionID' \in seenIds')
        /\ (sessionID # "" => sessionID' # "") ]_vars

\* C2 witness: an identity was assigned, an empty System/init was handled
\* after it and the session was closed, and the identity is still there.
C2_Witness ==
    /\ sessionID = "s1"
    /\ pc[ReadLoop] = "fwd" /\ rlMsg = SDKSystemMessage("init", "")
    /\ closeOnce = "done"

\* C3: however many Close calls are made, by the callers or from the
\* transport's close callback, at most one close frame is handed to the
\* transport and the close notification fires at most once, and exactly one
\* of each once a Close call has returned.
C3_CloseOnce ==
    /\ CloseFrames <= 1
    /\ notes.close <= 1
    /\ \A t \in Threads :
         ((t \in Callers /\ pc[t] = "idle" /\ op[t] = "Close") \/ closeOnce = "done")
            => (CloseFrames = 1 /\ notes.close = 1)

\* C3 witness: a caller called Close, the read loop ran Close from the close
\* callback after a read error, both calls are over, and there is one close
\* frame and one notification.
C3_Witness ==
    /\ \E c \in Callers : pc[c] = "idle" /\ op[c] = "Close"
    /\ pc[ReadLoop] = "exit" /\ broken /\ notes.err > 0
    /\ closeOnce = "done"
    /\ CloseFrames = 1 /\ notes.close = 1


Range(q) == { q[i] : i \in 1..Len(q) }

IsUserOf(m, c) == m.type = "user" /\ m.content = c

\* An Init envelope was handed to the transport before a User envelope of c.
InitBeforeUserOf(c) ==
    \E i, j \in 1..Len(submitted) :
        i < j /\ submitted[i].type = "init" /\ IsUserOf(submitted[j], c)

NoUserOf(c) == \A i \in 1..Len(submitted) : ~IsUserOf(submitted[i], c)

\* The errors Session.Connect returns.
ConnectErrors ==
    { ConnectionError("invalid URL"),
      ConnectionError("failed to connect"), ConnectionError("failed to send message"),
      ConnectionError("not connected"), TimeoutError("connection timeout"), CtxErr, SessionError(ClosedDuringInit),
      SessionError("e1"), SessionError("e2") }

\* C4 as stated: a Send that is the first call on the session connects by
\* itself; when the handshake succeeds it returns no error and its User
\* envelope follows the Init envelope; when its Connect fails it returns the
\* Connect error and sends no User envelope.
C4_SendAutoConnects ==
    \A c \in Callers :
        (pc[c] = "idle" /\ op[c] = "Send" /\ calls = 1) =>
            \/ auto[c] = "ok" /\ res[c] = Nil /\ InitBeforeUserOf(c)
            \/ auto[c] = "connecting" /\ res[c] \in ConnectErrors /\ NoUserOf(c)

\* C4 amended: a Send that found the session not connected runs Connect;
\* when that succeeds its User envelope is handed to the transport after the
\* Init envelope and Send returns what Transport.Send returns: no error, the
\* envelope then being written or queued, or the ConnectionError of a failed
\* write or of a transport disconnected meanwhile; when Connect fails Send
\* returns its error and sends no User envelope.
C4_SendAutoConnectsOrWriteFails ==
    \A c \in Callers :
        (pc[c] = "idle" /\ op[c] = "Send" /\ auto[c] # "none") =>
            \/ /\ auto[c] = "ok"
               /\ InitBeforeUserOf(c)
               /\ res[c] \in {Nil, ConnectionError("failed to send message"),
                              ConnectionError("not connected")}
               /\ res[c] = Nil =>
                    \E m \in Range(wire) \cup Range(msgQueue) : IsUserOf(m, c)
            \/ auto[c] = "connecting" /\ res[c] \in ConnectErrors /\ NoUserOf(c)

\* C4 witness: the first call on the session is a Send, it returned no error
\* and its User envelope is on the wire behind the Init envelope.
C4_Witness ==
    \E c \in Callers :
        /\ pc[c] = "idle" /\ op[c] = "Send" /\ calls = 1 /\ auto[c] = "ok"
        /\ res[c] = Nil
        /\ \E i, j \in 1..Len(wire) :
             i < j /\ wire[i].type = "init" /\ IsUserOf(wire[j], c)

\* A tool of the session options that carries a local handler.
HasLocalHandler(name) == \E t \in McpTools : t.name = name /\ t.hasHandler

LastToolResult ==
    LET idx == { i \in 1..Len(submitted) : submitted[i].type = "tool_result" }
    IN submitted[CHOOSE i \in idx : \A j \in idx : j <= i]

\* C5: a ToolCall for a tool without a registered handler (not declared, or
\* declared without a handler) yields a ToolResult envelope with isError
\* true, the text "Tool not found: <name>" and the callId of the call.
C5_ToolNotFound ==
    (lastTool.ran /\ ~HasLocalHandler(lastTool.call.toolName)) =>
        /\ lastTool.reply =
             [type |-> "tool_result", callId |-> lastTool.call.callId,
              result |-> [isError |-> TRUE,
                          content |-> << [type |-> "text",
                                          text |-> <<"Tool not found: ",
                                                     lastTool.call.toolName>>] >>]]
        /\ LastToolResult = lastTool.reply

\* C5 witness: a call for the tool declared without a handler was answered.
C5_Witness ==
    /\ lastTool.ran /\ lastTool.call.toolName = "t_decl"
    /\ lastTool.call.callId = CallIdOf(nIn) /\ nIn > 1
    /\ LastToolResult.result.isError

HandlerSucceeded == lastTool.outcome.err = "" /\ ~lastTool.outcome.result.isError

\* C6 as stated: a ToolCall for a registered tool whose handler succeeds
\* yields a ToolResult with isError false, the handler's content and the
\* callId of the call, and the handler is invoked with the call's input.
C6_ToolSuccess ==
    (lastTool.ran /\ HasLocalHandler(lastTool.call.toolName) /\ HandlerSucceeded) =>
        /\ LastToolResult = lastTool.reply
        /\ lastTool.reply.callId = lastTool.call.callId
        /\ lastTool.reply.result.isError = FALSE
        /\ lastTool.reply.result.content = lastTool.outcome.result.content
        /\ lastTool.input = lastTool.call.input

\* The part of C6 that holds on every input: the reply; the handler gets the
\* call's input when that input is a JSON object, and a nil mapping otherwise.
C6_ToolSuccessObjectInput ==
    (lastTool.ran /\ HasLocalHandler(lastTool.call.toolName) /\ HandlerSucceeded) =>
        /\ LastToolResult = lastTool.reply
        /\ lastTool.reply.callId = lastTool.call.callId
        /\ lastTool.reply.result.isError = FALSE
        /\ lastTool.reply.result.content = lastTool.outcome.result.content
        /\ lastTool.call.input.kind = "object" => lastTool.input = lastTool.call.input
        /\ lastTool.call.input.kind # "object" => lastTool.input.val = ""

\* C6 witness: the registered tool ran on an object input and succeeded.
C6_Witness ==
    /\ lastTool.ran /\ lastTool.call.toolName = "t_reg" /\ HandlerSucceeded
    /\ lastTool.call.input = JsonObject /\ lastTool.input = JsonObject
    /\ LastToolResult.result.content = <<TextToolContent(<<"out">>)>>

\* C7: the step by which a Stream call hands a Result to its consumer also
\* sets the state to Completed and ends the call; a Stream call ends only on
\* a Result, a cancellation or a closed session; and no step of a Stream call
\* disconnects the transport or runs Close.
C7_StreamEndsOnResult ==
    [][ \A s \in AllStreams :
          /\ (spc[s] = "fwd" /\ held[s].type = "result" /\ delivered'[s] # delivered[s]) =>
                /\ delivered'[s] = Append(delivered[s], SDKResultMessage)
                /\ state' = "completed"
                /\ spc'[s] = "done"
          /\ (spc[s] # "done" /\ spc'[s] = "done") =>
                \/ sctx[s] \/ closeCh
                \/ Last(delivered'[s]).type = "result" /\ state' = "completed"
          /\ (spc'[s] # spc[s] \/ delivered'[s] # delivered[s]) =>
                UNCHANGED <<conn, status, tCloseCh, closeCh, closeOnce, submitted>>
      ]_vars

\* C7 witness: the Stream call ended on a Result it delivered, with the
\* connection open and Close not run.
C7_Witness ==
    /\ spc["st1"] = "done" /\ ~sctx["st1"]
    /\ Len(delivered["st1"]) = 2 /\ Last(delivered["st1"]) = SDKResultMessage
    /\ state = "completed"
    /\ conn # 0 /\ status = "connected" /\ closeOnce = "idle"

C10_CloseOrCancelEndsHandshake ==
    /\ [](\A c \in Callers :
            (pc[c] = "hs" /\ (closeCh \/ ctxDone[c])) => ENABLED Handshake(c))
    /\ [][ \A c \in Callers :
             (pc[c] = "hs" /\ pc'[c] # "hs" /\ ~readyCh) =>
                 /\ pc'[c] = "idle" /\ state' = "error"
                 /\ res'[c] \in
                      (IF closeCh
                       THEN {[code |-> "SESSION_ERROR",
                              message |-> "session closed during initialization"]}
                       ELSE {})
                      \cup (IF ctxDone[c] THEN {CtxErr} ELSE {})
         ]_vars

\* C10 witness: one Connect returned the SessionError of a closed session.
C10_Witness ==
    /\ ~readyCh /\ closeCh /\ state = "error"
    /\ \E c \in Callers :
         /\ pc[c] = "idle" /\ op[c] = "Connect" /\ ~ctxDone[c]
         /\ res[c] = [code |-> "SESSION_ERROR",
                      message |-> "session closed during initialization"]

InitFrames == Cardinality({ i \in 1..Len(submitted) : submitted[i].type = "init" })

\* C11: a Connect that finds the session connected returns no error in that
\* step, and the step changes neither the session state nor anything of the
\* transport: Transport.Connect is not called and no Init envelope is sent.
C11_ConnectWhenConnectedIsNoOp ==
    [][ \A c \in Callers :
          (pc[c] = "c_begin" /\ op[c] = "Connect" /\ connected /\ pc'[c] # pc[c]) =>
              /\ pc'[c] = "idle" /\ res'[c] = Nil
              /\ UNCHANGED <<sessVars, cliVars, transVars, submitted>>
      ]_vars

\* C11 witness: a second Connect returned on a connected session, with one
\* Transport.Connect and one Init envelope in all.
C11_Witness ==
    /\ pc["c1"] = "idle" /\ op["c1"] = "Connect" /\ res["c1"] = Nil
    /\ calls = 2 /\ connected /\ state = "ready"
    /\ notes.tconnect = 1 /\ InitFrames = 1

\* Every envelope the session handed to the transport, written or queued.
Outbound == Range(submitted) \cup Range(wire) \cup Range(msgQueue)

\* C12: no Init envelope handed to the transport, written or queued carries
\* a session identity, for a created and for a resumed session, before and
\* after the remote side assigned an identity.
C12_InitCarriesNoIdentity ==
    \A m \in Outbound : m.type = "init" => m.sessionId = ""

\* C12 witness: a resumed session that the remote side gave an identity
\* sent its second Init envelope.
C12_Witness ==
    /\ options.SessionID = "r1" /\ sessionID = "s1"
    /\ InitFrames = 2 /\ Last(submitted).type = "init"
    /\ \E i \in 1..Len(wire) : wire[i].type = "init"

\* C13: the step of Send that builds the User envelope is enabled whatever
\* the identity is, and the envelope it hands to the transport carries the
\* identity of that moment when one is assigned and "unknown" otherwise; no
\* User envelope handed to the transport carries the empty string.
C13_UserCarriesIdentityOrUnknown ==
    /\ [](\A c \in Callers : pc[c] = "s_body" => ENABLED SendBody(c))
    /\ [](\A m \in Outbound : m.type = "user" => m.session_id # "")
    /\ [][ \A c \in Callers :
             (pc[c] = "s_body" /\ pc'[c] # pc[c]) =>
                 /\ Len(submitted') = Len(submitted) + 1
                 /\ Last(submitted').type = "user"
                 /\ Last(submitted').session_id =
                        (IF sessionID = "" THEN "unknown" ELSE sessionID)
         ]_vars

\* C13 witness: the session sent one User envelope under the assigned identity
\* and it was written to the connection.
C13_Witness ==
    /\ sessionID = "s1"
    /\ pc["c1"] = "idle" /\ op["c1"] = "Send" /\ res["c1"] = Nil
    /\ \E i \in 1..Len(wire) : wire[i] = SDKUserMessage("s1", "c1")

\* The same for a session without identity: the placeholder was written.
C13_WitnessUnknown ==
    /\ sessionID = ""
    /\ pc["c1"] = "idle" /\ op["c1"] = "Send" /\ res["c1"] = Nil
    /\ \E i \in 1..Len(wire) : wire[i] = SDKUserMessage("unknown", "c1")

\* The messages in the inbound buffer, taken by a Stream goroutine, or handed
\* to a Stream consumer.
StreamSide ==
    Range(msgCh) \cup UNION { Range(delivered[s]) \cup {held[s]} : s \in AllStreams }

\* C14: no ToolCall envelope is in the inbound buffer, taken from it or
\* delivered to a Stream consumer, whether it arrived before or after the
\* session was connected.
C14_ToolCallsDiverted ==
    \A m \in StreamSide : m.type # "tool_call"

\* C14 witness: a tool call read before the session was connected was
\* answered, the session is connected since, and the running Stream goroutine
\* has nothing to take.
C14_Witness ==
    /\ connected /\ state = "ready"
    /\ lastTool.ran /\ pc[ReadLoop] = "read" /\ nIn = 2
    /\ submitted[1].type = "tool_result"
    /\ spc["st1"] = "wait" /\ msgCh = <<>> /\ delivered["st1"] = <<>>

\* The same with the tool call read after the session was connected.
C14_WitnessConnected ==
    /\ connected /\ state = "processing"
    /\ lastTool.ran /\ pc[ReadLoop] = "read" /\ nIn = 2
    /\ Last(submitted).type = "tool_result"
    /\ spc["st1"] = "wait" /\ msgCh = <<>> /\ delivered["st1"] = <<>>

\* The texts of a tool result's content.
ResultTexts(r) == { r.content[i].text : i \in 1..Len(r.content) }

\* C15: handleToolCall ends, for a missing tool and for every outcome of the
\* handler, with a ToolResult envelope of the call's callId handed to
\* Transport.Send (written when the connection is up and intact, queued while
\* there is none) and with the state Processing; a handler error gives
\* isError true and a text that carries the error, an explicit error result
\* is passed on with isError true and its text; the read loop goes on and the
\* session is not closed by it.
C15_ToolCallAlwaysAnswered ==
    [][ (pc[ReadLoop] = "tool" /\ pc'[ReadLoop] # "tool") =>
          LET reply == Last(submitted')
              o == lastTool'.outcome IN
            /\ Len(submitted') = Len(submitted) + 1
            /\ reply.type = "tool_result" /\ reply.callId = rlMsg.callId
            /\ IF SendQueues THEN msgQueue' = Append(msgQueue, reply)
               ELSE IF broken THEN notes'.err = notes.err + 1
               ELSE wire' = Append(wire, reply)
            /\ state' = "processing"
            /\ ~HasLocalHandler(rlMsg.toolName) => reply.result.isError
            /\ (HasLocalHandler(rlMsg.toolName) /\ o.err # "") =>
                   /\ reply.result.isError
                   /\ \E t \in ResultTexts(reply.result) : t[Len(t)] = o.err
            /\ (HasLocalHandler(rlMsg.toolName) /\ o.err = "" /\ o.result.isError) =>
                   reply.result = o.result
            /\ (HasLocalHandler(rlMsg.toolName) /\ o.err = "" /\ ~o.result.isError) =>
                   reply.result = o.result
            /\ pc'[ReadLoop] = "read"
            /\ UNCHANGED <<closeOnce, closeCh, connected, conn, status, tCloseCh>>
      ]_vars

\* C15 witness: the handler of a tool call returned an error, the error
\* result was written to the connection, and the read loop went on.
C15_Witness ==
    /\ lastTool.ran /\ lastTool.found /\ lastTool.outcome.err = "boom"
    /\ wire # <<>> /\ Last(wire) = lastTool.reply
    /\ Last(wire).result.isError
    /\ state = "processing" /\ pc[ReadLoop] = "read" /\ closeOnce = "idle"

\* The same for an explicit error result of the handler.
C15_WitnessExplicit ==
    /\ lastTool.ran /\ lastTool.found /\ lastTool.outcome.err = ""
    /\ lastTool.outcome.result.isError
    /\ wire # <<>> /\ Last(wire) = lastTool.reply
    /\ state = "processing" /\ pc[ReadLoop] = "read" /\ closeOnce = "idle"

\* C16: once Session.Close has run, the registry of the client has no entry
\* for the session, which Client.CreateSession filed under the identity the
\* session had then, the empty string.
C16_ClosedSessionNotRegistered ==
    closeOnce = "done" => MainSession \notin Registered

\* The part of C16 that holds: a session that never got an identity is not
\* in the registry after its Close.
C16_ClosedWithoutIdentityNotRegistered ==
    (closeOnce = "done" /\ sessionID = "") => MainSession \notin Registered

ClientCloseReturned(c) == op[c] = "ClientClose" /\ pc[c] = "idle"

\* C17: when Client.Close has returned, Close has been executed on every
\* session that was created through the client and not closed when
\* Client.Close was called, however many sessions were created.
C17_ClientCloseClosesAll ==
    \A c \in Callers :
        ClientCloseReturned(c) => \A s \in atClose.live : Closed(s)

\* The part of C17 that holds: Close has been executed on every session the
\* registry held when Client.Close copied it.
C17_ClientCloseClosesListed ==
    \A c \in Callers :
        ClientCloseReturned(c) => \A s \in atClose.listed : Closed(s)

\* Client.Close returned after closing a listed session, with two created.
C17_ListedWitness ==
    /\ ClientCloseReturned("c2")
    /\ atClose.listed # {} /\ Cardinality(atClose.live) >= 2

\* C18: once Session.Close has run, no step of Connect, Send, Stream or the
\* read loop changes the session state, and a Close called on a session that
\* was never connected completes without error.
C18_CloseIsTerminal ==
    /\ [](\A c \in Callers : (op[c] = "Close" /\ pc[c] = "idle") => res[c] = Nil)
    /\ [][closeOnce = "done" => state' = state]_vars

\* The part of C18 that holds: Close runs to its end on a session that was
\* never connected (the close frame is queued, the transport is disconnected),
\* and a second Close does nothing.
C18_CloseBeforeConnectCompletes ==
    /\ [](\A c \in Callers : (op[c] = "Close" /\ pc[c] = "idle") => res[c] = Nil)
    /\ [](\A c \in Callers : pc[c] = "cl_body" => ENABLED CloseBody(c))
    /\ [][closeOnce = "done" => closeOnce' = "done"]_vars

\* Close ran on a session on which Connect was never called.
C18_CloseBeforeConnectWitness ==
    /\ closeOnce = "done" /\ notes.tconnect = 0 /\ state = "idle"
    /\ pc["c2"] = "idle" /\ op["c2"] = "Close"

\* C19: once Session.Close has run, the transport holds no connection, in
\* every interleaving of Close with Connect: a connection is neither left
\* open nor opened afterwards.
C19_NoConnectionAfterClose ==
    closeOnce = "done" => conn = 0

\* The part of C19 that holds: the step that ends Close leaves the transport
\* without a connection handle and with the status Disconnected.
C19_CloseDisconnects ==
    [][(closeOnce # "done" /\ closeOnce' = "done") =>
           (conn' = 0 /\ status' = "disconnected" /\ tCloseCh')]_vars

\* A step that hands an envelope to Transport.Send while the connection is
\* not established appends it to the queue and reports no error; flushQueue
\* takes the whole queue.
QueuedWhileNotEstablished ==
    /\ [][ (Len(submitted') > Len(submitted) /\ SendQueues) =>
             /\ msgQueue' = Append(msgQueue, Last(submitted'))
             /\ wire' = wire /\ notes'.err = notes.err
             /\ \A c \in Callers :
                  pc'[c] # pc[c] =>
                      /\ pc'[c] \in {"hs", "idle", "cc_loop"}
                      /\ pc'[c] = "idle" => res'[c] = Nil
         ]_vars
    /\ [][ \A c \in Callers :
             (pc[c] = "flush" /\ pc'[c] # "flush") =>
                 (flushing'[c] = msgQueue /\ msgQueue' = <<>>) ]_vars

FlushStep(c) == pc[c] = "flush_w" /\ flushing'[c] # flushing[c]

\* C20: Transport.Send on a transport whose connection is not established
\* queues the message and returns no error, and the flush of a successful
\* Transport.Connect writes every queued message to the connection, oldest
\* first.
C20_QueueFlushedInOrder ==
    /\ QueuedWhileNotEstablished
    /\ [][ \A c \in Callers :
             FlushStep(c) =>
                 /\ flushing'[c] = Tail(flushing[c])
                 /\ wire' = Append(wire, Head(flushing[c])) ]_vars

\* C20 as the code has it: the flush hands the queued messages oldest first
\* to sendImmediate; a message is written when the connection is up and
\* intact, and otherwise dropped with a ConnectionError to the error callback.
C20_QueueFlushedInOrderOrDropped ==
    /\ QueuedWhileNotEstablished
    /\ [][ \A c \in Callers :
             FlushStep(c) =>
                 /\ flushing'[c] = Tail(flushing[c])
                 /\ IF conn # 0 /\ ~broken
                    THEN wire' = Append(wire, Head(flushing[c])) /\ notes'.err = notes.err
                    ELSE wire' = wire /\ notes'.err = notes.err + 1 ]_vars

\* C20 witness: an Init envelope and the close frame, queued in that order
\* while the status was Connecting, were written by the flush of the second
\* dial.
C20_Witness ==
    /\ dials = 2 /\ wire = <<InitEnvelope(""), CloseEnvelope>>
    /\ msgQueue = <<>>
    /\ \E c \in Callers : pc[c] = "wfr" /\ flushing[c] = <<>>

LoopsStopped == kaPc # "run" /\ pc[ReadLoop] \in {"off", "exit"}

\* C21: every Transport.Disconnect call returns no error and leaves the
\* handle released, the status Disconnected and closeCh closed; a call on a
\* transport that is already in that condition changes nothing of it; once
\* closeCh is closed the read loop takes no further frame and both loops end.
C21_DisconnectIdempotent ==
    /\ [][ \A c \in Callers :
             (op'[c] = "Disconnect" /\ calls' = calls + 1 /\ pc' = pc) =>
                 /\ res'[c] = Nil /\ pc'[c] = "idle"
                 /\ conn' = 0 /\ status' = "disconnected" /\ tCloseCh'
                 /\ (conn = 0 /\ status = "disconnected" /\ tCloseCh) =>
                        UNCHANGED transVars
         ]_vars
    /\ [][tCloseCh => (tCloseCh' /\ nIn' = nIn)]_vars
    /\ (tCloseCh ~> LoopsStopped)

\* C21 witness: the connection was up, the transport was disconnected by the
\* session's Close and then again by a direct call, and both loops ended.
C21_Witness ==
    /\ dials = 1 /\ closeOnce = "done"
    /\ op["c2"] = "Disconnect" /\ pc["c2"] = "idle" /\ res["c2"] = Nil
    /\ conn = 0 /\ status = "disconnected" /\ LoopsStopped /\ notes.loops = 1

\* Two direct calls on a transport that never connected.
C21_WitnessNeverConnected ==
    /\ dials = 0 /\ notes.tconnect = 0
    /\ op["c1"] = "none" /\ op["c2"] = "Disconnect" /\ calls = 2
    /\ conn = 0 /\ status = "disconnected" /\ tCloseCh

PromptReturned(c) == op[c] = "Prompt" /\ pc[c] = "idle"

\* C22: when Client.Prompt has returned its session is closed; it returned
\* the result of the Result envelope when its Stream delivered one, the
\* SessionError "no result received" when its Stream ended without one, and
\* the error of Send, which no Close changes, when Send failed.
C22_PromptOutcomes ==
    /\ [](\A c \in Callers :
            PromptReturned(c) =>
                /\ closeOnce = "done"
                /\ LET got == delivered[PromptStreamId] IN
                     IF spc[PromptStreamId] = "off"
                     THEN res[c] \in ConnectErrors
                     ELSE IF SDKResultMessage \in Range(got)
                          THEN res[c] = PromptOk(SDKResultMessage)
                          ELSE res[c] = SessionError("no result received"))
    /\ [][ \A c \in Callers :
             (op[c] = "Prompt" /\ pc[c] \in {"cl_begin", "cl_body"}) =>
                 res'[c] = res[c] ]_vars

\* C22 witness: Prompt returned the result its Stream delivered.
C22_Witness ==
    /\ PromptReturned("c1") /\ res["c1"] = PromptOk(SDKResultMessage)
    /\ closeOnce = "done" /\ spc["st1"] = "done"

\* Prompt returned "no result received".
C22_WitnessNoResult ==
    /\ PromptReturned("c1") /\ res["c1"] = SessionError("no result received")
    /\ closeOnce = "done"

\* Prompt returned the error of Send.
C22_WitnessSendError ==
    /\ PromptReturned("c1") /\ spc["st1"] = "off" /\ closeOnce = "done"

\* The message a Stream goroutine or the read loop holds, if any.
HeldBy(s) == IF held[s] = NoMsg THEN <<>> ELSE <<held[s]>>

InHandling == IF pc[ReadLoop] \in {"handle", "fwd"} THEN <<rlMsg>> ELSE <<>>

\* The inbound messages in the order the Stream calls hand them on.
TurnOrder ==
    delivered["st1"] \o HeldBy("st1") \o delivered["st2"] \o HeldBy("st2")
        \o msgCh \o InHandling

\* C23: with a second Stream call made after the first ended on a Result,
\* the two calls deliver the received envelopes in the order of their
\* arrival, none twice and none left out; each call delivers a Result only as
\* its last envelope and has ended exactly when it delivered one.
C23_NextTurnContinues ==
    /\ Len(TurnOrder) = nIn
    /\ \A k \in 1..Len(TurnOrder) : TurnOrder[k].uuid = k
    /\ \A s \in AllStreams :
         /\ \A i \in 1..Len(delivered[s]) :
              delivered[s][i].type = "result" <=> (i = Len(delivered[s]) /\ spc[s] = "done")
         /\ spc[s] = "done" => delivered[s] # <<>>

\* C23 witness: the first call ended on the first Result; after a further
\* Send the second call delivered the second Result and ended.
C23_Witness ==
    /\ delivered["st1"] = <<[type |-> "result", uuid |-> 1]>>
    /\ delivered["st2"] = <<[type |-> "result", uuid |-> 2]>>
    /\ spc["st2"] = "done" /\ calls = 2 /\ state = "completed"

\* The transitions of the session state the specification lists.
ListedTransitions ==
    { <<"idle", "initializing">>, <<"initializing", "ready">>,
      <<"initializing", "error">>, <<"ready", "processing">>,
      <<"processing", "waiting_tool">>, <<"waiting_tool", "processing">>,
      <<"processing", "completed">> }

\* C24: every change of the session state is one of the listed transitions.
C24_OnlyListedTransitions ==
    [][state' # state => <<state, state'>> \in ListedTransitions]_vars

\* C25: once the session identity is non-empty, no System/init message (and
\* no other step) changes it.
C25_IdentityNeverReassigned ==
    [][sessionID # "" => sessionID' = sessionID]_vars

\* The read loop is inside handleMessage's select with the buffer full and
\* the session not closed.
DeliveryBlocked == pc[ReadLoop] = "fwd" /\ Len(msgCh) = MsgChCap /\ ~closeCh

\* C26: the buffer never holds more than MsgChCap messages; while the read
\* loop's delivery is blocked on a full buffer it stays blocked with the
\* message it holds until a Stream call took a message or the session was
\* closed, and meanwhile no further frame is read and nothing is handled.
C26_BufferBounded ==
    /\ [](Len(msgCh) <= MsgChCap)
    /\ [][DeliveryBlocked =>
            /\ pc'[ReadLoop] = "fwd" /\ rlMsg' = rlMsg /\ nIn' = nIn
            /\ readyCh' = readyCh /\ lastTool' = lastTool /\ state' = state
            /\ rl2'.pc \in {rl2.pc, "read"}
            /\ (Len(msgCh') < MsgChCap => \E s \in AllStreams : held'[s] = Head(msgCh) /\ held[s] = NoMsg)
       ]_vars
    /\ [][(pc[ReadLoop] = "fwd" /\ pc'[ReadLoop] # "fwd")
            => (Len(msgCh) < MsgChCap \/ closeCh)]_vars

\* C26: the part of it that holds whatever the number of read loops: the
\* buffer never holds more than MsgChCap messages, and a delivery blocked on
\* the full buffer goes on only after a Stream call took a message or the
\* session was closed.
C26_BlockedUntilRoom ==
    /\ [](Len(msgCh) <= MsgChCap)
    /\ [][DeliveryBlocked => (pc'[ReadLoop] = "fwd" /\ rlMsg' = rlMsg)]_vars
    /\ [][(pc[ReadLoop] = "fwd" /\ pc'[ReadLoop] # "fwd")
            => (Len(msgCh) < MsgChCap \/ closeCh)]_vars

\* C26 witness: while the delivery of the first read loop is blocked on the
\* full buffer, the second read loop has read a ToolCall and runs its
\* handler.
C26_WitnessSecondLoop ==
    DeliveryBlocked /\ rl2.pc = "tool" /\ nIn = 2

\* C27: a Stream call whose context was cancelled or whose session was
\* closed ends, whether it waits for a message or holds one that its
\* consumer does not take.
C27_StreamTerminates ==
    /\ (spc["st1"] = "wait" /\ (sctx["st1"] \/ closeCh)) ~> spc["st1"] = "done"
    /\ (spc["st1"] = "fwd" /\ (sctx["st1"] \/ closeCh)) ~> spc["st1"] = "done"

\* C27 witness: the call ended on a cancelled context while holding a
\* message nobody took.
C27_Witness ==
    /\ spc["st1"] = "done" /\ sctx["st1"] /\ ~closeCh
    /\ nIn = 1 /\ pc[ReadLoop] = "read" /\ msgCh = <<>> /\ delivered["st1"] = <<>>

\* C27 witness: the call ended on the close of the session while waiting on
\* an empty buffer.
C27_WitnessWaiting ==
    /\ spc["st1"] = "done" /\ ~sctx["st1"] /\ closeCh
    /\ nIn = 0 /\ delivered["st1"] = <<>>

\* A Stream call that ended for one of the reasons the specification names:
\* it forwarded a Result, its context was cancelled, or a caller called
\* Close.
EndedAsSpecified(s) ==
    \/ delivered[s] # <<>> /\ Last(delivered[s]).type = "result"
    \/ sctx[s]
    \/ \E c \in Callers : op[c] = "Close"

\* C28: whatever errors the background tasks report, a Stream call ends only
\* on a Result, on the cancellation of its context or on a Close call.
C28_ErrorsNeverEndStream ==
    \A s \in AllStreams : spc[s] = "done" => EndedAsSpecified(s)

\* A step that reports an error to the error callback.
ErrorReported == notes'.err > notes.err

\* C28 (amended): an error reported by a frame that does not parse, by a
\* failed keep-alive send or by a failed ToolResult send changes nothing for
\* a running Stream call: its position, the message it holds, the buffer and
\* the close channel stay as they are. A failed read is reported and then
\* runs Session.Close from the read loop, the only way the read loop closes
\* the session; a Stream call ends only on a Result, on the cancellation of
\* its context or on the closing of the session.
C28_OnlyReadErrorEndsStream ==
    /\ [](\A s \in AllStreams :
            spc[s] = "done" =>
               \/ delivered[s] # <<>> /\ Last(delivered[s]).type = "result"
               \/ sctx[s]
               \/ closeCh)
    /\ [][ErrorReported => (strVars' = strVars /\ closeCh' = closeCh /\ msgCh' = msgCh)]_vars
    /\ [][(ErrorReported /\ ~(broken /\ pc[ReadLoop] = "read" /\ pc'[ReadLoop] = "cl_begin"))
             => (closeOnce' = closeOnce /\ \A t \in Threads : pc'[t] # "cl_begin" \/ pc[t] = "cl_begin")]_vars
    /\ [][(pc[ReadLoop] # "cl_begin" /\ pc'[ReadLoop] = "cl_begin")
             => (broken /\ pc[ReadLoop] = "read" /\ ErrorReported)]_vars
    /\ [][(~closeCh /\ closeCh')
             => \E t \in Threads : pc[t] = "cl_begin" /\ pc'[t] = "cl_body"]_vars

\* C28 witness: a frame that did not parse was reported, and the Stream call
\* delivered the message that came after it.
C28_Witness ==
    /\ notes.err = 1 /\ ~broken /\ ~closeCh
    /\ delivered["st1"] = <<[type |-> "assistant", uuid |-> 2]>>
    /\ spc["st1"] = "wait"

\* C28 witness: the keep-alive send failed on the broken socket and was
\* reported; the Stream call then delivered a buffered message.
C28_WitnessKeepAlive ==
    /\ notes.err = 1 /\ broken /\ pings = 1 /\ ~closeCh /\ pc[ReadLoop] = "read"
    /\ Len(delivered["st1"]) = 1 /\ spc["st1"] = "wait"

\* C28 witness: the read failed and the session closed itself; the Stream
\* call ended with no Result, no cancellation and no Close call.
C28_WitnessReadError ==
    /\ spc["st1"] = "done" /\ ~EndedAsSpecified("st1")
    /\ pc[ReadLoop] = "exit" /\ closeOnce = "done"

\* C28 witness: the reply to a tool call could not be written and was
\* reported; the Stream call is still waiting.
C28_WitnessToolResult ==
    /\ lastTool.ran /\ notes.err = 1 /\ broken /\ pings = 0 /\ ~closeCh
    /\ pc[ReadLoop] = "read" /\ spc["st1"] = "wait"

\* A read loop is between the start of handleToolCall and the submission of
\* its ToolResult.
HandlerInFlight == pc[ReadLoop] = "tool"

Handler2InFlight == rl2.pc = "tool"

\* C29: at most one tool handler is in flight, and while one is in flight no
\* inbound envelope is read or handled.
C29_OneHandlerInFlight ==
    /\ [](~(HandlerInFlight /\ Handler2InFlight))
    /\ [][(HandlerInFlight \/ Handler2InFlight) =>
            (nIn' = nIn /\ msgCh' = msgCh /\ readyCh' = readyCh)]_vars

\* C29: within one read loop the handler runs synchronously: while it is in
\* flight that loop keeps the ToolCall it handles, and it reads the next
\* frame only after the ToolResult was submitted.
C29_SynchronousInItsLoop ==
    /\ [][HandlerInFlight =>
            /\ rlMsg' = rlMsg
            /\ pc'[ReadLoop] \in {"tool", "read"}
            /\ (pc'[ReadLoop] = "read" =>
                  (lastTool'.ran /\ lastTool'.call = rlMsg /\ Last(submitted') = lastTool'.reply))
         ]_vars
    /\ [][Handler2InFlight =>
            /\ rl2'.msg = rl2.msg
            /\ rl2'.pc \in {"tool", "read"}
            /\ (rl2'.pc = "read" =>
                  (lastTool'.ran /\ lastTool'.call = rl2.msg /\ Last(submitted') = lastTool'.reply))
         ]_vars

\* C29 witness: two tool handlers are in flight, one in each read loop.
C29_WitnessTwoHandlers ==
    /\ HandlerInFlight /\ Handler2InFlight /\ rlMsg # rl2.msg /\ notes.loops = 2

\* The uuids of the messages a Stream call handed to its consumer.
DeliveredIds(s) == { delivered[s][i].uuid : i \in 1..Len(delivered[s]) }

\* C30: with two Stream calls on one session, a message is handed to at
\* most one of the two consumers and to that one once; what is handed over
\* was received, and a message is in one place only: with a consumer, held
\* by a Stream call or in the buffer.
C30_DeliveredToOneConsumer ==
    /\ DeliveredIds("st1") \cap DeliveredIds("st2") = {}
    /\ \A s \in AllStreams :
         /\ Cardinality(DeliveredIds(s)) = Len(delivered[s])
         /\ DeliveredIds(s) \subseteq 1..nIn
         /\ held[s] # NoMsg =>
              /\ held[s].uuid \notin DeliveredIds("st1") \cup DeliveredIds("st2")
              /\ \A k \in 1..Len(msgCh) : msgCh[k].uuid # held[s].uuid
    /\ (held["st1"] # NoMsg /\ held["st2"] # NoMsg) => held["st1"] # held["st2"]
    /\ \A k \in 1..Len(msgCh) :
         msgCh[k].uuid \notin DeliveredIds("st1") \cup DeliveredIds("st2")

\* C30 witness: both Stream calls are running and each has handed one of the
\* two buffered messages to its consumer.
C30_Witness ==
    /\ spc["st1"] = "wait" /\ spc["st2"] = "wait"
    /\ ~sctx["st1"] /\ ~sctx["st2"]
    /\ DeliveredIds("st1") = {2} /\ DeliveredIds("st2") = {1}

\* C31: Transport.Connect sets the status Connecting (from Disconnected on
\* the first call); from there the call either stores the handle and sets
\* Connected, going on to the flush, or sets Error and returns a
\* ConnectionError, and then it starts no loop, takes nothing from the queue,
\* writes nothing and stores no handle.
C31_ConnectStatus ==
    [][\A c \in Callers :
         /\ (pc[c] = "c_begin" /\ pc'[c] = "dial") =>
               /\ status' = "connecting"
               /\ notes.tconnect = 0 => status = "disconnected"
         /\ (pc[c] = "dial" /\ pc'[c] # "dial") =>
               \/ /\ status' = "connected" /\ conn' # 0 /\ pc'[c] = "flush"
               \/ /\ status' = "error"
                  /\ res'[c] \in DialErrors /\ pc'[c] = "idle"
                  /\ notes'.loops = notes.loops /\ kaPc' = kaPc
                  /\ pc'[ReadLoop] = pc[ReadLoop] /\ rl2' = rl2
                  /\ msgQueue' = msgQueue /\ wire' = wire /\ conn' = conn
      ]_vars

\* C31 witness: the first Connect failed on the endpoint with a message in
\* the queue: the status is Error, no loop runs, the message is still queued
\* and nothing was written.
C31_Witness ==
    /\ status = "error" /\ res["c1"] = ConnectionError("invalid URL") /\ pc["c1"] = "idle"
    /\ notes.tconnect = 1 /\ notes.loops = 0 /\ kaPc = "off" /\ pc[ReadLoop] = "off"
    /\ msgQueue # <<>> /\ wire = <<>> /\ conn = 0

\* C31 witness: the dial succeeded and the status went on to Connected.
C31_WitnessConnected ==
    /\ status = "connected" /\ conn = 1 /\ notes.tconnect = 1 /\ notes.loops = 1

\* The statuses the transport produces.
ProducedStatuses == {"disconnected", "connecting", "connected", "error"}

\* C32: the status is always Disconnected, Connecting, Connected or Error,
\* never Reconnecting; Transport.Connect is entered only by a caller's
\* Connect, and a dial is made only by such a call: after a failed read the
\* transport makes none of its own.
C32_NoReconnecting ==
    /\ [](status \in ProducedStatuses)
    /\ [][notes'.tconnect # notes.tconnect =>
            \E c \in Callers : pc[c] = "c_begin" /\ pc'[c] = "dial" /\ op[c] = "Connect"]_vars
    /\ [][dials' # dials => \E c \in Callers : pc[c] = "dial" /\ pc'[c] = "flush"]_vars
    /\ [][(pc[ReadLoop] \in {"cl_begin", "cl_body", "exit"} /\ \A c \in Callers : pc[c] = "idle")
            => (dials' = dials /\ notes'.tconnect = notes.tconnect
                  /\ status' \in {status, "disconnected"})]_vars

\* C32 witness: the connection was lost, the read loop reported it, closed
\* the session and ended; the status is Disconnected and the one dial made
\* is the caller's.
C32_Witness ==
    /\ broken /\ pc[ReadLoop] = "exit" /\ closeOnce = "done" /\ notes.err = 1
    /\ status = "disconnected" /\ dials = 1 /\ notes.tconnect = 1
    /\ pc["c1"] = "idle" /\ op["c2"] = "none"

\* The read loop took a frame from the connection and handed no message to
\* the message callback: the frame did not parse.
FrameSkipped ==
    pc[ReadLoop] = "read" /\ nIn' = nIn + 1 /\ rlMsg' = rlMsg /\ rl2' = rl2

\* C33: a frame that does not parse is reported as a ProtocolError to the
\* error callback and changes nothing else: no message is handled or
\* buffered, the session and the connection stay as they are, and the read
\* loop is back at its read, where it takes the next frame.
C33_MalformedFrameSkipped ==
    /\ [][FrameSkipped =>
            /\ notes' = HandleError(notes, ProtocolError("failed to parse message"))
            /\ pc' = pc
            /\ UNCHANGED <<sessVars, transVars, strVars, lastTool, submitted>>
         ]_vars
    /\ [][(FrameSkipped /\ nIn' < MaxInbound) => (ENABLED ReadFrame(AsyncFrames))']_vars

\* C33 witness: the first frame did not parse and was reported; the second
\* one was read, handled and put into the buffer.
C33_Witness ==
    /\ nIn = 2 /\ notes.err = 1 /\ notes.last = "PROTOCOL_ERROR"
    /\ msgCh = <<[type |-> "assistant", uuid |-> 2]>>
    /\ pc[ReadLoop] = "read" /\ ~closeCh /\ conn # 0

\* The read of the read loop failed on a connection nobody disconnected: the
\* step that reports it.
ReadFailed ==
    /\ pc[ReadLoop] = "read" /\ broken /\ conn # 0 /\ ~tCloseCh
    /\ notes'.err = notes.err + 1 /\ pings' = pings /\ submitted' = submitted

\* The read loop is inside the close callback, that is, inside Session.Close.
InCloseCallback == pc[ReadLoop] \in {"cl_begin", "cl_body"}

\* C34: a failed read on a connection that was not disconnected is reported
\* as a ConnectionError and takes the read loop into the close callback,
\* which runs Session.Close; from there the loop only leaves to its end, and
\* the session is closed by then; the loop enters the callback from its read
\* only, never again after its end, and from the failure on it reads no
\* frame and hands on no message.
C34_ReadFailureCloses ==
    /\ [][ReadFailed =>
            /\ notes' = HandleError(notes, ConnectionError("read error"))
            /\ pc'[ReadLoop] = "cl_begin"]_vars
    /\ [][(~InCloseCallback /\ InCloseCallback') => ReadFailed]_vars
    /\ [][InCloseCallback =>
            /\ pc'[ReadLoop] \in {"cl_begin", "cl_body", "exit"}
            /\ (pc'[ReadLoop] = "exit" => closeOnce' = "done" /\ closeCh' /\ conn' = 0)
         ]_vars
    /\ [][(InCloseCallback \/ pc[ReadLoop] = "exit") =>
            /\ nIn' = nIn /\ rlMsg' = rlMsg
            /\ Len(msgCh') <= Len(msgCh)
            /\ (pc[ReadLoop] = "exit" => pc'[ReadLoop] = "exit")
         ]_vars

\* C34 witness: the read failed, the error was reported, the close callback
\* closed the session though no caller called Close, and the loop ended.
C34_Witness ==
    /\ pc[ReadLoop] = "exit" /\ closeOnce = "done" /\ notes.close = 1
    /\ notes.err = 1 /\ notes.last = "CONNECTION_ERROR" /\ pings = 0 /\ ~lastTool.ran
    /\ \A c \in Callers : op[c] # "Close"

\* C35: every message for which Transport.Send returned no error has been
\* written to the connection once Transport.Connect has succeeded and every
\* call has returned: with the transport connected, no flush under way and
\* no caller inside a call, the message of each Send that returned nil is on
\* the wire and the queue holds nothing.
Accepted(c) == op[c] = "Send" /\ res[c] = Nil /\ pc[c] = "idle"

TransportSettled ==
    /\ status = "connected" /\ conn # 0 /\ ~broken
    /\ \A c \in Callers : pc[c] = "idle"

C35_AcceptedIsWritten ==
    TransportSettled =>
        /\ msgQueue = <<>>
        /\ \A c \in Callers :
              Accepted(c) => \E i \in 1..Len(wire) : wire[i] = PendingUser(c)

\* C36: a Result envelope that was in the inbound buffer before the session
\* was closed reaches the Stream consumer that keeps reading: a Stream whose
\* context is not cancelled never ends with a Result still in the buffer or
\* taken from it and not handed over, and Client.Prompt never returns "no
\* result received" while a Result is in the buffer.
ResultBuffered(s) ==
    \/ held[s].type = "result"
    \/ \E i \in 1..Len(msgCh) : msgCh[i].type = "result"

C36_BufferedResultDelivered ==
    /\ [][\A s \in AllStreams :
            ( /\ spc[s] \in {"wait", "fwd"} /\ spc'[s] = "done"
              /\ ~sctx[s] /\ delivered'[s] = delivered[s] )
            => ~ResultBuffered(s)]_vars
    /\ [](\A c \in Callers :
            ( /\ PromptReturned(c) /\ ~sctx[PromptStreamId]
              /\ res[c] = SessionError("no result received") )
            => \A i \in 1..Len(msgCh) : msgCh[i].type # "result")

\* C37: when a ready signal (Control ready/session_info or System/init) is
\* the first envelope to complete the handshake, Connect succeeds whatever
\* arrives afterwards, unless its context is done or the session closed;
\* Connect returns a handshake failure only when an Error envelope completed
\* the handshake, that is when it came before every ready signal.
HandshakeFailure(r) ==
    r.code = "SESSION_ERROR" /\ r # SessionError(ClosedDuringInit)

C37_ReadyFirstSucceeds ==
    [][\A c \in Callers :
         (pc[c] = "hs" /\ pc'[c] # "hs") =>
            /\ (readyBy \in {"control", "init"} /\ ~ctxDone[c] /\ ~closeCh)
                  => pc'[c] = "fin"
            /\ (pc'[c] = "idle" /\ HandshakeFailure(res'[c]))
                  => readyBy = "error"
      ]_vars

\* C38: for one session, while no call has failed, concurrent Connect and
\* Send calls make at most one call of Transport.Connect, send at most one
\* Init envelope, start at most one read loop and notify the start of the
\* session at most once.
InitsSent == Cardinality({ i \in 1..Len(wire) : wire[i].type = "init" })

C38_ConnectsOnce ==
    (\A c \in Callers : res[c] = Nil) =>
        /\ notes.tconnect <= 1
        /\ InitsSent <= 1
        /\ notes.loops <= 1
        /\ notes.start <= 1

\* C39: the registry of the client holds every session that was created and
\* on which Close has not been called: creating another session does not
\* displace it, and closing another session does not remove it.
Open(s) == IF s = MainSession THEN closeOnce = "idle" ELSE ~peers[s].closed

C39_RegistryHoldsOpenSessions ==
    \A s \in Created : Open(s) => s \in Registered

\* C40: with one Stream consumer that is never cancelled, the envelopes
\* yielded are the inbound envelopes that the session hands on, in the order
\* of the reads, none twice and none missing: when every inbound envelope is
\* one that is handed on and carries the number of its read, the k-th
\* envelope yielded is the one read k-th.
Yielded == delivered["st1"]

C40_YieldedInReadOrder ==
    \A k \in 1..Len(Yielded) : Yielded[k].uuid = k

====
